---- MODULE Spec2Model ----
(***************************************************************************)
(* Case-scoped access control of the legal RAG backend                     *)
(* (src/backend/server.js): the permissions synchronizer and its cache,    *)
(* the session issuer, the conversation thread manager, the agent          *)
(* conversation and the document resolver.                                 *)
(*                                                                         *)
(* JavaScript strings whose characters matter (case numbers, blob paths,   *)
(* e-mails) are sequences of one-character strings.  A handler is cut into *)
(* one action per await of real I/O: Node drains the microtask queue after *)
(* each callback, so the code between two I/O awaits runs atomically.      *)
(***************************************************************************)
EXTENDS Integers, Sequences, FiniteSets, TLC

VARIABLES
  permissionsCache,  \* server.js:591  { byUserId, byEmail, lastSync, isSyncing }
  syncProc,          \* one activation record per caller of syncPermissions
  lastRun,           \* history: what the most recent sync execution did
  committed,         \* history: the last generation a sync completed
  saStaff,           \* external authority: case number -> staff roster
  blobs,             \* external object store: set of blob names
  now,               \* Date.now(), in ticks
  tokens,            \* the session tokens issued so far (signed JWTs)
  issued,            \* history: Directory entitlement found when tokens[i] was issued
  loginResp,         \* the last response of a login endpoint
  userThreads,       \* server.js:139  sessionId -> { threadId, cases, filter }, with
                     \* the history field createdUnder
  engineThreads,     \* generation engine: the thread ids that exist remotely
  nextThreadId,      \* generation engine: next fresh thread id
  req,               \* the request slots: the activation record of the request a
                     \* slot serves, or the response of the last one it served
  engine,            \* the engines: [slow: runs may stay pending, tools: the agent
                     \* calls the search tool, index: the documents of the index]
  notesSync          \* the notes synchronizer (sync-notes.js): its activation
                     \* record, ./notes-cache.json, and the notes of the authority

vars == <<permissionsCache, syncProc, lastRun, committed, saStaff, blobs, now,
          tokens, issued, loginResp, userThreads, engineThreads,
          nextThreadId, req, engine, notesSync>>

syncVars   == <<permissionsCache, syncProc, lastRun, committed>>
threadVars == <<userThreads, engineThreads, nextThreadId>>
tokenVars  == <<tokens, issued, loginResp>>

-----------------------------------------------------------------------------
(* Bounds *)
MaxClock   == 1
MaxTokens  == 2
MaxThreads == 3

-----------------------------------------------------------------------------
(* JavaScript values *)

\* A missing value (null, undefined) of a string is the empty string <<>>, of a
\* number is 0: the code only ever tests these values for truthiness.
NoString == <<>>
NoNumber == 0
Star == <<"*">>         \* the '*' entitlement entry

Digits == {"0", "1", "2", "3", "4", "5", "6", "7", "8", "9"}

\* Array.prototype.includes
Includes(arr, x) == \E i \in 1..Len(arr) : arr[i] = x

Range(arr) == {arr[i] : i \in 1..Len(arr)}

\* /^\d+$/.test(s)
IsAllDigits(s) == Len(s) > 0 /\ \A i \in 1..Len(s) : s[i] \in Digits

\* index of the first '/' of s, or Len(s)+1
FirstSlash(s) ==
  IF \E i \in 1..Len(s) : s[i] = "/"
    THEN CHOOSE i \in 1..Len(s) : s[i] = "/" /\ \A j \in 1..(i - 1) : s[j] # "/"
    ELSE Len(s) + 1

\* s.split('/')[0]
FirstSegment(s) == SubSeq(s, 1, FirstSlash(s) - 1)

\* index of the last '/' of s, or 0
LastSlash(s) ==
  IF \E i \in 1..Len(s) : s[i] = "/"
    THEN CHOOSE i \in 1..Len(s) : s[i] = "/" /\ \A j \in (i + 1)..Len(s) : s[j] # "/"
    ELSE 0

\* s.split('/').pop()
LastSegment(s) == SubSeq(s, LastSlash(s) + 1, Len(s))

\* s.startsWith(p)
StartsWith(s, p) == Len(p) <= Len(s) /\ SubSeq(s, 1, Len(p)) = p

LowerOf(ch) ==
  CASE ch = "A" -> "a"
    [] ch = "B" -> "b"
    [] ch = "X" -> "x"
    [] OTHER -> ch

\* String.prototype.toLowerCase
ToLowerCase(s) == [i \in 1..Len(s) |-> LowerOf(s[i])]

\* String.prototype.trim
Trim(s) ==
  LET keep == {i \in 1..Len(s) : s[i] # " "}
  IN  IF keep = {} THEN <<>>
      ELSE LET lo == CHOOSE i \in keep : \A j \in keep : i <= j
               hi == CHOOSE i \in keep : \A j \in keep : i >= j
           IN  SubSeq(s, lo, hi)

-----------------------------------------------------------------------------
(* The external world: the object store and the case-management authority *)

Case96  == <<"2", "5", "0", "9", "6">>
Case97  == <<"2", "5", "0", "9", "7">>

Slash == <<"/">>

\* Blob names, in the order listBlobsFlat returns them (the store lists
\* lexicographically).
SyncStore ==
  << Case96 \o Slash \o <<"a">>,
     Case96 \o Slash \o <<"b">>,
     Case97 \o Slash \o <<"c">>,
     <<"m", "i", "s", "c">> \o Slash \o <<"d">> >>

StaffAna   == [userID |-> 1, email |-> <<" ", "A", "@", "X">>,
               firstName |-> <<"A">>, lastName |-> <<"L">>, role |-> "Attorney"]
StaffBob   == [userID |-> 2, email |-> NoString,
               firstName |-> <<"B">>, lastName |-> <<"M">>, role |-> "Paralegal"]
StaffGhost == [userID |-> NoNumber, email |-> <<"g", "@", "x">>,
               firstName |-> <<"G">>, lastName |-> <<"N">>, role |-> "Paralegal"]

\* Eve's staff record: the authority keeps it under another user id than the
\* one it answers when she authenticates.
StaffEve   == [userID |-> 4, email |-> <<"e", "@", "x">>,
               firstName |-> <<"E">>, lastName |-> <<"V">>, role |-> "Attorney"]

\* The rosters the authority may hold for one case.
RosterChoices == { <<StaffAna>>, <<StaffBob, StaffGhost>> }

-----------------------------------------------------------------------------
(* Synchronizer: syncPermissions, server.js:605-699 *)

SyncCallers == {"startup", "timer", "force1", "force2"}
Running == {"auth", "list", "fetch"}

EmptyMap == <<>>

\* The readable part of the cache: one Directory generation.
Directory(cache) ==
  [byUserId |-> cache.byUserId, byEmail |-> cache.byEmail, lastSync |-> cache.lastSync]

\* server.js:629-636: the distinct all-digit first path segments, in listing order.
RECURSIVE CaseNumbersOf(_)
CaseNumbersOf(listing) ==
  IF listing = <<>> THEN <<>>
  ELSE LET rest == CaseNumbersOf(SubSeq(listing, 1, Len(listing) - 1))
           seg  == FirstSegment(listing[Len(listing)])
       IN  IF IsAllDigits(seg) /\ ~Includes(rest, seg) THEN Append(rest, seg) ELSE rest

\* server.js:654-674: the body of staffList.forEach for one staff member.
\* t = [byUserId, byEmail]; byEmail holds a reference (the uid) to the profile
\* object of byUserId, or NoNumber where the code stores undefined.
StaffStep(t, staff, caseNum) ==
  LET uid   == staff.userID
      email == IF staff.email # NoString THEN Trim(ToLowerCase(staff.email)) ELSE NoString
      t1 == IF uid # NoNumber /\ uid \notin DOMAIN t.byUserId
              THEN [t EXCEPT !.byUserId = @ @@ (uid :>
                      [name  |-> staff.firstName \o <<" ">> \o staff.lastName,
                       email |-> email,
                       role  |-> staff.role,
                       cases |-> <<>>])]
              ELSE t
      t2 == IF uid # NoNumber /\ ~Includes(t1.byUserId[uid].cases, caseNum)
              THEN [t1 EXCEPT !.byUserId[uid].cases = Append(@, caseNum)]
              ELSE t1
      t3 == IF email # NoString
              THEN [t2 EXCEPT !.byEmail = (email :> uid) @@ @]
              ELSE t2
  IN  t3

RECURSIVE ApplyStaffList(_, _, _)
ApplyStaffList(t, staffList, caseNum) ==
  IF staffList = <<>> THEN t
  ELSE ApplyStaffList(StaffStep(t, Head(staffList), caseNum), Tail(staffList), caseNum)

\* The value a reader finds under an e-mail once the scratch maps are the cache:
\* the profile object the entry references, or Undefined.
Undefined == [name |-> NoString, email |-> NoString, role |-> "undefined", cases |-> <<>>]

ResolveByEmail(tempByEmail, tempByUserId) ==
  [e \in DOMAIN tempByEmail |->
     IF tempByEmail[e] = NoNumber THEN Undefined
     ELSE tempByUserId[tempByEmail[e]]]

IdleProc ==
  [pc |-> "idle", casesList |-> <<>>, idx |-> 0,
   tempByUserId |-> EmptyMap, tempByEmail |-> EmptyMap,
   ok |-> {}, failed |-> {}, expired |-> {}, notFound |-> {},
   pre |-> [byUserId |-> EmptyMap, byEmail |-> EmptyMap, lastSync |-> -1]]

\* server.js:606: the single-flight guard.
SyncGuard(cache) == cache.isSyncing

BeginSync_Late(cache) == cache

\* server.js:607: the flag is set before the first await.
BeginSync(cache) == [cache EXCEPT !.isSyncing = TRUE]

SyncAbort_Reset(cache) ==
  [byUserId |-> EmptyMap, byEmail |-> EmptyMap, lastSync |-> cache.lastSync,
   isSyncing |-> FALSE]

SyncAbort_KeepFlag(cache) == cache

\* server.js:694-698: catch (log only) and finally.
SyncAbort(cache) == [cache EXCEPT !.isSyncing = FALSE]

\* server.js:686-689 and 697: the scratch maps become the cache; finally.
SwapCache_KeepEmail(cache, tempByUserId, tempByEmail, date) ==
  [byUserId  |-> tempByUserId,
   byEmail   |-> cache.byEmail,
   lastSync  |-> date,
   isSyncing |-> FALSE]

SwapCache_Merge(cache, tempByUserId, tempByEmail, date) ==
  [byUserId  |-> tempByUserId @@ cache.byUserId,
   byEmail   |-> ResolveByEmail(tempByEmail, tempByUserId),
   lastSync  |-> date,
   isSyncing |-> FALSE]

SwapCache_Append(cache, tempByUserId, tempByEmail, date) ==
  [byUserId  |-> [u \in DOMAIN tempByUserId |->
                    IF u \in DOMAIN cache.byUserId
                      THEN [tempByUserId[u] EXCEPT !.cases = cache.byUserId[u].cases \o @]
                      ELSE tempByUserId[u]],
   byEmail   |-> ResolveByEmail(tempByEmail, tempByUserId),
   lastSync  |-> date,
   isSyncing |-> FALSE]

SwapCache(cache, tempByUserId, tempByEmail, date) ==
  [byUserId  |-> tempByUserId,
   byEmail   |-> ResolveByEmail(tempByEmail, tempByUserId),
   lastSync  |-> date,
   isSyncing |-> FALSE]

CaseLookupFailed_Break(l) ==
  [l EXCEPT !.failed = @ \cup {l.casesList[l.idx]}, !.idx = Len(l.casesList)]

\* server.js:676-678: the catch of one case lookup; the loop goes on.
CaseLookupFailed(l) == [l EXCEPT !.failed = @ \cup {l.casesList[l.idx]}]

\* History: the status the authority answered the failed lookup with (401: the
\* service token has expired; 404: it knows no such case); the catch does not
\* look at it.
NoteStatus(l, outcome) ==
  [l EXCEPT !.expired  = IF outcome = "expired"  THEN @ \cup {l.casesList[l.idx]} ELSE @,
            !.notFound = IF outcome = "notFound" THEN @ \cup {l.casesList[l.idx]} ELSE @]

\* server.js:651-675: one roster applied to the scratch maps.
CaseLookupDone(l, isArray, staffList) ==
  LET t == IF isArray
             THEN ApplyStaffList([byUserId |-> l.tempByUserId, byEmail |-> l.tempByEmail],
                                 staffList, l.casesList[l.idx])
             ELSE [byUserId |-> l.tempByUserId, byEmail |-> l.tempByEmail]
  IN  [l EXCEPT !.tempByUserId = t.byUserId, !.tempByEmail = t.byEmail,
                !.ok = @ \cup {<<l.casesList[l.idx], IF isArray THEN staffList ELSE <<>> >>}]

NoRun ==
  [outcome |-> "none", cases |-> <<>>, ok |-> {}, failed |-> {}, notFound |-> {},
   collapsed |-> "none", repeated |-> FALSE]

\* History of the most recent execution: how it ended, the cases it listed, the
\* lookups that succeeded (case, roster) and failed, whether a trigger that
\* found the flag set was collapsed into it, and whether it completed on the
\* same listing and the same answers as a completed execution just before it.
RunRecord(l, outcome) ==
  [outcome |-> outcome, cases |-> l.casesList, ok |-> l.ok, failed |-> l.failed,
   notFound |-> l.notFound,
   collapsed |-> lastRun.collapsed,
   repeated |-> /\ outcome = "done" /\ lastRun.outcome = "done"
                /\ lastRun.cases = l.casesList /\ lastRun.ok = l.ok
                /\ lastRun.failed = l.failed]

Collapse(p) == lastRun' = [lastRun EXCEPT !.collapsed = p]

StartSync_FromCache(p) ==
  /\ permissionsCache' = BeginSync(permissionsCache)
  /\ syncProc' = [syncProc EXCEPT ![p] = [IdleProc EXCEPT !.pc = "auth",
                                            !.tempByUserId = permissionsCache.byUserId,
                                            !.pre = Directory(permissionsCache)]]
  /\ lastRun' = [lastRun EXCEPT !.collapsed = "none"]
  /\ UNCHANGED committed

\* The synchronous start of syncPermissions (lines 605-612).
StartSync(p) ==
  /\ permissionsCache' = BeginSync(permissionsCache)
  /\ syncProc' = [syncProc EXCEPT ![p] = [IdleProc EXCEPT !.pc = "auth",
                                            !.pre = Directory(permissionsCache)]]
  /\ lastRun' = [lastRun EXCEPT !.collapsed = "none"]
  /\ UNCHANGED committed

\* setInterval(syncPermissions, ...), server.js:703
TimerSync ==
  /\ syncProc["timer"].pc = "idle"
  /\ IF SyncGuard(permissionsCache)
       THEN /\ Collapse("timer")
            /\ UNCHANGED <<permissionsCache, syncProc, committed>>
       ELSE StartSync("timer")
  /\ UNCHANGED <<saStaff, blobs, now, tokenVars, threadVars, req, engine, notesSync>>

\* POST /api/admin/force-sync, server.js:1129-1144, up to the await
ForceSync(p, secretOk) ==
  /\ syncProc[p].pc = "idle"
  /\ IF ~secretOk
       THEN UNCHANGED syncVars                        \* 403
       ELSE IF permissionsCache.isSyncing
         THEN /\ Collapse(p)                           \* 409
              /\ UNCHANGED <<permissionsCache, syncProc, committed>>
         ELSE IF SyncGuard(permissionsCache)
           THEN UNCHANGED syncVars                    \* 200, nothing ran
           ELSE StartSync(p)
  /\ UNCHANGED <<saStaff, blobs, now, tokenVars, threadVars, req, engine, notesSync>>

\* server.js:612-617: the authenticate call returns or throws
SyncAuthReturn(p, authOk) ==
  /\ syncProc[p].pc = "auth"
  /\ IF authOk
       THEN /\ syncProc' = [syncProc EXCEPT ![p].pc = "list"]
            /\ UNCHANGED <<permissionsCache, lastRun, committed>>
       ELSE /\ permissionsCache' = SyncAbort(permissionsCache)
            /\ lastRun' = RunRecord(syncProc[p], "authfail")
            /\ syncProc' = [syncProc EXCEPT ![p] = IdleProc]
            /\ UNCHANGED committed
  /\ UNCHANGED <<saStaff, blobs, now, tokenVars, threadVars, req, engine, notesSync>>

\* The end of the loop (server.js:686-698), taken in the step that ends it.
FinishSync(p, l) ==
  /\ permissionsCache' = SwapCache(permissionsCache, l.tempByUserId, l.tempByEmail, now)
  /\ committed' = [byUserId |-> l.tempByUserId,
                   byEmail  |-> ResolveByEmail(l.tempByEmail, l.tempByUserId),
                   lastSync |-> now]
  /\ lastRun' = RunRecord(l, "done")
  /\ syncProc' = [syncProc EXCEPT ![p] = IdleProc]

\* server.js:620-637: the listing of the container ends or throws
SyncListReturn(p, listOk) ==
  /\ syncProc[p].pc = "list"
  /\ IF listOk
       THEN LET l == [syncProc[p] EXCEPT !.casesList = CaseNumbersOf(blobs), !.idx = 1]
            IN  IF l.casesList = <<>>
                  THEN FinishSync(p, l)
                  ELSE /\ syncProc' = [syncProc EXCEPT ![p] = [l EXCEPT !.pc = "fetch"]]
                       /\ UNCHANGED <<permissionsCache, lastRun, committed>>
       ELSE /\ permissionsCache' = SyncAbort(permissionsCache)
            /\ lastRun' = RunRecord(syncProc[p], "listfail")
            /\ syncProc' = [syncProc EXCEPT ![p] = IdleProc]
            /\ UNCHANGED committed
  /\ UNCHANGED <<saStaff, blobs, now, tokenVars, threadVars, req, engine, notesSync>>

\* server.js:644-684: the roster request of case casesList[idx] returns
\* (an array, or some other body) or throws ("expired": 401, "notFound": 404,
\* "error": anything else)
SyncStaffReturn(p, outcome) ==
  /\ syncProc[p].pc = "fetch"
  /\ LET l0 == syncProc[p]
         l1 == CASE outcome = "array"    -> CaseLookupDone(l0, TRUE, saStaff[l0.casesList[l0.idx]])
                 [] outcome = "notArray" -> CaseLookupDone(l0, FALSE, <<>>)
                 [] OTHER                -> CaseLookupFailed(NoteStatus(l0, outcome))
     IN  IF l1.idx >= Len(l1.casesList)
           THEN FinishSync(p, l1)
           ELSE /\ syncProc' = [syncProc EXCEPT ![p] = [l1 EXCEPT !.idx = @ + 1]]
                /\ UNCHANGED <<permissionsCache, lastRun, committed>>
  /\ UNCHANGED <<saStaff, blobs, now, tokenVars, threadVars, req, engine, notesSync>>

\* The authority changes the roster of a case.
SAChangeStaff(c, roster) ==
  /\ saStaff[c] # roster
  /\ saStaff' = [saStaff EXCEPT ![c] = roster]
  /\ UNCHANGED <<syncVars, blobs, now, tokenVars, threadVars, req, engine, notesSync>>

\* The object store without the objects of case 25097.
StoreWithout97 == << SyncStore[1], SyncStore[2], SyncStore[4] >>

\* Objects are uploaded to or deleted from the store.
StoreChange(store) ==
  /\ blobs # store
  /\ blobs' = store
  /\ UNCHANGED <<syncVars, saStaff, now, tokenVars, threadVars, req, engine, notesSync>>

\* Time passes.
Tick ==
  /\ now < MaxClock
  /\ now' = now + 1
  /\ UNCHANGED <<syncVars, saStaff, blobs, tokenVars, threadVars, req, engine, notesSync>>

EmptyCache == [byUserId |-> EmptyMap, byEmail |-> EmptyMap, lastSync |-> -1, isSyncing |-> FALSE]

\* server.js:591-596 and 702: the module has loaded; the startup call of
\* syncPermissions has run up to its first await.
InitSync ==
  /\ permissionsCache = BeginSync(EmptyCache)
  /\ syncProc = [p \in SyncCallers |->
                   IF p = "startup" THEN [IdleProc EXCEPT !.pc = "auth"] ELSE IdleProc]
  /\ lastRun = NoRun
  /\ committed = Directory(EmptyCache)


-----------------------------------------------------------------------------
(* Session issuer: POST /api/login and POST /api/auth/microsoft *)

UserAna == <<"a", "n", "a">>
UserBob == <<"b", "o", "b">>
UserEve == <<"e", "v", "e">>
Usernames == {UserAna, UserBob, UserEve}

\* The userID the authority answers for valid credentials of a user name.
SAUserID(username) ==
  CASE username = UserAna -> 1
    [] username = UserBob -> 2
    [] OTHER -> 3

\* The e-mail the authority holds for the account of a user name.
SAEmail(username) ==
  CASE username = UserAna -> StaffAna.email
    [] username = UserBob -> NoString
    [] OTHER -> StaffEve.email

AtActslaw == <<"@", "a", "c", "t", "s", "l", "a", "w">>

\* The last response of a login endpoint, with its history: what the
\* authentication came to and the identity (user id, normalized e-mail) it
\* established.
NoLogin ==
  [status |-> 0, token |-> 0, outcome |-> "none", userID |-> NoNumber, email |-> NoString]

\* The e-mail claims a verified federated identity token may carry.
FederatedEmails == { <<"A", "@", "x", " ">>, <<"g", "@", "x">>, <<"z", "@", "x">> }

Or(a, b) == IF a # NoString THEN a ELSE b          \* a || b on strings

\* `${name}-${Date.now()}`: the pair determines the string.
SessionIdOf(name, date) == <<name, "-", date>>

\* server.js:743-772: the token payload of a credentials login.
LoginToken(cache, username, date) ==
  LET saUserID == SAUserID(username)
      found    == saUserID \in DOMAIN cache.byUserId
      profile  == IF found THEN cache.byUserId[saUserID] ELSE Undefined
  IN  [email      |-> IF found THEN Or(profile.email, username \o AtActslaw)
                               ELSE username \o AtActslaw,
       saUsername |-> username,
       saUserID   |-> saUserID,
       name       |-> IF found THEN Or(profile.name, username) ELSE username,
       cases      |-> IF found THEN profile.cases ELSE <<>>,
       sessionId  |-> SessionIdOf(username, date)]

\* email.split('@')[0]
BeforeAt(s) ==
  IF \E i \in 1..Len(s) : s[i] = "@"
    THEN SubSeq(s, 1, (CHOOSE i \in 1..Len(s) :
                         s[i] = "@" /\ \A j \in 1..(i - 1) : s[j] # "@") - 1)
    ELSE s

\* server.js:834-847: the token payload of a federated login (the identity
\* token carries no name claim).
MicrosoftToken(user, normalizedEmail, date) ==
  [email      |-> normalizedEmail,
   saUsername |-> NoString,
   saUserID   |-> NoNumber,
   name       |-> Or(user.name, BeforeAt(normalizedEmail)),
   cases      |-> user.cases,
   sessionId  |-> SessionIdOf(normalizedEmail, date)]

\* POST /api/login, server.js:710-786.  outcome is what the authority does
\* with the credentials: "ok", "rejected" (it answers 401), "unreachable"
\* (the request throws without an answer), "noUserID" (an answer without
\* userID).
Login(username, outcome) ==
  /\ Len(tokens) < MaxTokens
  /\ IF outcome = "ok"
       THEN /\ tokens' = Append(tokens, LoginToken(permissionsCache, username, now))
            /\ issued' = Append(issued,
                  IF SAUserID(username) \in DOMAIN committed.byUserId
                    THEN committed.byUserId[SAUserID(username)].cases ELSE <<>>)
            /\ loginResp' = [status |-> 200, token |-> Len(tokens) + 1, outcome |-> "ok",
                             userID |-> SAUserID(username),
                             email |-> Trim(ToLowerCase(SAEmail(username)))]
       ELSE /\ loginResp' = [NoLogin EXCEPT !.status = 401, !.outcome = outcome]
            /\ UNCHANGED <<tokens, issued>>
  /\ UNCHANGED <<syncVars, saStaff, blobs, now, threadVars, req, engine, notesSync>>

\* POST /api/auth/microsoft, server.js:791-870.  verifyOk: the identity token
\* verifies; email: the e-mail claim it carries.
LoginMicrosoft(email, verifyOk) ==
  /\ Len(tokens) < MaxTokens
  /\ LET normalizedEmail == Trim(ToLowerCase(email))
         known == normalizedEmail \in DOMAIN permissionsCache.byEmail
         user  == IF known THEN permissionsCache.byEmail[normalizedEmail] ELSE Undefined
     IN  IF ~verifyOk
           THEN /\ loginResp' = [NoLogin EXCEPT !.status = 401, !.outcome = "unverified"]
                /\ UNCHANGED <<tokens, issued>>
           ELSE IF user = Undefined
             THEN /\ loginResp' = [NoLogin EXCEPT !.status = 403, !.outcome = "ok",
                                                  !.email = normalizedEmail]
                  /\ UNCHANGED <<tokens, issued>>
             ELSE /\ tokens' = Append(tokens, MicrosoftToken(user, normalizedEmail, now))
                  /\ issued' = Append(issued,
                        IF normalizedEmail \in DOMAIN committed.byEmail
                          THEN committed.byEmail[normalizedEmail].cases ELSE <<>>)
                  /\ loginResp' = [status |-> 200, token |-> Len(tokens) + 1,
                                   outcome |-> "ok", userID |-> NoNumber,
                                   email |-> normalizedEmail]
  /\ UNCHANGED <<syncVars, saStaff, blobs, now, threadVars, req, engine, notesSync>>

ReqUser_Refreshed(tok) ==
  [tokens[tok] EXCEPT !.cases =
     IF tokens[tok].saUserID \in DOMAIN permissionsCache.byUserId
       THEN permissionsCache.byUserId[tokens[tok].saUserID].cases ELSE <<>>]

\* jwt.verify, server.js:883-888: the payload the request is served with.
ReqUser(tok) == tokens[tok]

-----------------------------------------------------------------------------
(* The retrieval index and the responses of the chat endpoint *)

\* Documents of the retrieval index: title, url (URI-encoded blob path) and
\* the case_number field.
DocA == [title |-> "a.pdf", url |-> Case96 \o <<"%", "2", "F", "a">>, case_number |-> Case96]
DocC == [title |-> "c.pdf", url |-> Case97 \o Slash \o <<"c">>, case_number |-> Case97]
DocN == [title |-> "n.pdf", url |-> NoString, case_number |-> Case97]
IndexDocs == {DocA, DocC, DocN}

MaxHits == 2

\* The OData filter string the search receives: null for NoFilter, else the
\* clauses "case_number eq 'c'" joined by " or ".  The join of no clauses is
\* the empty string, which restricts nothing.
Matches(doc, filter) ==
  \/ filter.kind = "none"
  \/ filter.eq = <<>>
  \/ Includes(filter.eq, doc.case_number)

\* What a search may return: any list of at most MaxHits distinct documents of
\* the index, restricted to those matching the filter when the engine applies
\* filters (engine.honest); an engine that is not trusted may ignore it.
SearchResults(filter) ==
  {hits \in UNION {[1..n -> engine.index] : n \in 0..MaxHits} :
     /\ \A i, j \in 1..Len(hits) : i # j => hits[i] # hits[j]
     /\ engine.honest => \A i \in 1..Len(hits) : Matches(hits[i], filter)}

\* decodeURIComponent, for the escape %2F; of undefined it is "undefined".
RECURSIVE decodeURIComponent(_)
decodeURIComponent(u) ==
  IF u = <<>> THEN <<>>
  ELSE IF Len(u) >= 3 /\ u[1] = "%" /\ u[2] = "2" /\ u[3] = "F"
    THEN Slash \o decodeURIComponent(SubSeq(u, 4, Len(u)))
    ELSE <<u[1]>> \o decodeURIComponent(Tail(u))

UndefinedText == <<"u", "n", "d", "e", "f", "i", "n", "e", "d">>

\* server.js:480-485
DocInfo(doc) ==
  [title    |-> doc.title,
   blobPath |-> IF doc.url = NoString THEN UndefinedText ELSE decodeURIComponent(doc.url),
   case     |-> doc.case_number]

\* server.js:559-571: one citation per distinct truthy blobPath, first wins.
RECURSIVE UniqueCitations(_)
UniqueCitations(docs) ==
  IF docs = <<>> THEN <<>>
  ELSE LET rest == UniqueCitations(SubSeq(docs, 1, Len(docs) - 1))
           doc  == docs[Len(docs)]
       IN  IF doc.blobPath # NoString /\ \A i \in 1..Len(rest) : rest[i].blobPath # doc.blobPath
             THEN Append(rest, [title |-> doc.title, blobPath |-> doc.blobPath])
             ELSE rest

NoResponse ==
  [tok |-> 0, status |-> 0, kind |-> "none", citations |-> <<>>, blobPath |-> NoString,
   source |-> "none", documentCase |-> NoString, userCases |-> <<>>, calls |-> {},
   hintFound |-> NoString, filename |-> NoString, results |-> <<>>, indexPath |-> NoString,
   grant |-> [blobName |-> NoString, permissions |-> "", hours |-> 0], data |-> {}]

\* server.js:929-936: the chat turn threw: 500 with the message of the error
\* ("timeout": 'Agent run timeout', "failed": 'Run failed: ...', "error": an
\* error of a collaborator), no citations.
ErrorResponse(rq, message) ==
  [NoResponse EXCEPT !.tok = rq.tok, !.status = 500, !.kind = message]

\* server.js:948-953: the answer of the clear endpoint.
ClearResponse(rq, deleted) ==
  [NoResponse EXCEPT !.tok = rq.tok, !.status = 200,
                     !.kind = IF deleted THEN "cleared" ELSE "noChat"]

\* server.js:575-583 and 928: the answer of the agent with its citations.
AnswerResponse(rq, citations) ==
  [NoResponse EXCEPT !.tok = rq.tok, !.status = 200, !.kind = "answer",
                     !.citations = citations]

-----------------------------------------------------------------------------
(* Conversation session manager: getOrCreateThread, deleteThread *)

MaxReq == 2
ReqIds == 1..MaxReq

NoFilter == [kind |-> "none", eq |-> <<>>]

\* No search of the tool has run in the turn yet.
NotSearched == [kind |-> "unset", eq |-> <<>>]

\* server.js:164-176: null for '*', else the disjunction
\* case_number eq 'c1' or case_number eq 'c2' ..., kept as the list of its cases.
generateCaseNumberFilter(userCases) ==
  IF Includes(userCases, Star) THEN NoFilter
  ELSE [kind |-> "or", eq |-> userCases]

casesMatch_Subset(stored, userCases) ==
  \A i \in 1..Len(stored) : Includes(userCases, stored[i])

\* server.js:187-189
casesMatch(stored, userCases) ==
  /\ Len(stored) = Len(userCases)
  /\ \A i \in 1..Len(stored) : Includes(userCases, stored[i])

IdleReq ==
  [kind |-> "idle", pc |-> "idle", tok |-> 0, sessionId |-> <<>>, userCases |-> <<>>,
   delTid |-> 0, threadId |-> 0, iterations |-> 0, toolRounds |-> 0,
   toolRetrievedDocuments |-> <<>>, searchFilter |-> NotSearched, runStatus |-> "none",
   resp |-> NoResponse]

\* The request of the slot has been answered.
Done(response) == [IdleReq EXCEPT !.pc = "done", !.resp = response]

Free(r) == req[r].pc \in {"idle", "done"}

\* server.js:210-215: the entry stored for a new thread.
NewThreadInfo(threadId, userCases) ==
  [threadId |-> threadId, cases |-> userCases,
   filter |-> generateCaseNumberFilter(userCases), createdUnder |-> userCases]

\* Map.prototype.delete
MapDelete(m, k) == [x \in DOMAIN m \ {k} |-> m[x]]

\* server.js:183-207: getOrCreateThread up to its first await.  The request
\* either returns the stored thread (and goes on to messages.create), or has
\* asked the engine to delete the stored thread, or to create a new one.
getOrCreateThreadEnter(rq, map) ==
  IF rq.sessionId \in DOMAIN map
    THEN IF casesMatch(map[rq.sessionId].cases, rq.userCases)
           THEN [rq EXCEPT !.pc = "message", !.threadId = map[rq.sessionId].threadId]
           ELSE [rq EXCEPT !.pc = "rebind", !.delTid = map[rq.sessionId].threadId]
    ELSE [rq EXCEPT !.pc = "create"]

\* server.js:223-227: deleteThread up to its await, called by `caller`
\* ("clearThread" of a chat turn, or the clear endpoint).
deleteThreadEnter(rq, map, caller) ==
  IF rq.sessionId \in DOMAIN map
    THEN [rq EXCEPT !.pc = caller, !.delTid = map[rq.sessionId].threadId]
    ELSE IF caller = "clearThread" THEN getOrCreateThreadEnter(rq, map)
         ELSE Done(ClearResponse(rq, FALSE))           \* 'No active chat to clear'

\* POST /api/chat, server.js:895-917, up to the first await.
ChatStart(r, tok, clearThread) ==
  /\ Free(r)
  /\ tok \in 1..Len(tokens)
  /\ LET user == ReqUser(tok)
         rq0  == [IdleReq EXCEPT !.kind = "chat", !.tok = tok,
                                 !.sessionId = user.sessionId, !.userCases = user.cases]
         rq1  == IF clearThread THEN deleteThreadEnter(rq0, userThreads, "clearThread")
                 ELSE getOrCreateThreadEnter(rq0, userThreads)
     IN  req' = [req EXCEPT ![r] = rq1]
  /\ UNCHANGED <<syncVars, saStaff, blobs, now, tokenVars, threadVars, engine, notesSync>>

deleteThreadReturn_KeepMapping(r, ok) ==
  /\ req[r].pc \in {"rebind", "clearThread", "clear"}
  /\ ok => req[r].delTid \in engineThreads
  /\ engineThreads' = IF ok THEN engineThreads \ {req[r].delTid} ELSE engineThreads
  /\ req' = [req EXCEPT ![r] =
        IF req[r].pc = "clear" THEN Done(ClearResponse(req[r], ok))
        ELSE [req[r] EXCEPT !.pc = "create"]]
  /\ UNCHANGED <<syncVars, saStaff, blobs, now, tokenVars, userThreads, nextThreadId,
                 engine, notesSync>>

deleteThreadReturn_FailKeeps(r, ok) ==
  /\ req[r].pc \in {"rebind", "clearThread", "clear"}
  /\ ok => req[r].delTid \in engineThreads
  /\ engineThreads' = IF ok THEN engineThreads \ {req[r].delTid} ELSE engineThreads
  /\ LET map == IF ok THEN MapDelete(userThreads, req[r].sessionId) ELSE userThreads
         rq1 == CASE req[r].pc = "rebind"      -> [req[r] EXCEPT !.pc = "create"]
                  [] req[r].pc = "clearThread" ->
                       getOrCreateThreadEnter([req[r] EXCEPT !.delTid = 0], map)
                  [] OTHER                     -> Done(ClearResponse(req[r], ok))
     IN  /\ userThreads' = map
         /\ req' = [req EXCEPT ![r] = rq1]
  /\ UNCHANGED <<syncVars, saStaff, blobs, now, tokenVars, nextThreadId, engine, notesSync>>

\* server.js:227-235: threads.delete returns or throws; either way the
\* mapping of the session is dropped.  The engine deletes only a thread it has.
\* delTid is existing.threadId of getOrCreateThread, or threadInfo.threadId of
\* deleteThread, which is gone when deleteThread has returned to the chat turn.
deleteThreadReturn(r, ok) ==
  /\ req[r].pc \in {"rebind", "clearThread", "clear"}
  /\ ok => req[r].delTid \in engineThreads
  /\ engineThreads' = IF ok THEN engineThreads \ {req[r].delTid} ELSE engineThreads
  /\ LET map == MapDelete(userThreads, req[r].sessionId)
         rq1 == CASE req[r].pc = "rebind"      -> [req[r] EXCEPT !.pc = "create"]
                  [] req[r].pc = "clearThread" ->
                       getOrCreateThreadEnter([req[r] EXCEPT !.delTid = 0], map)
                  [] OTHER                     -> Done(ClearResponse(req[r], ok))
     IN  /\ userThreads' = map
         /\ req' = [req EXCEPT ![r] = rq1]
  /\ UNCHANGED <<syncVars, saStaff, blobs, now, tokenVars, nextThreadId, engine, notesSync>>

\* server.js:207-220: threads.create returns a fresh thread (or throws: the
\* chat turn answers 500); the thread is stored with a copy of the cases.
getOrCreateThreadCreated(r, ok) ==
  /\ req[r].pc = "create"
  /\ IF ok
       THEN /\ nextThreadId <= MaxThreads
            /\ engineThreads' = engineThreads \cup {nextThreadId}
            /\ nextThreadId' = nextThreadId + 1
            /\ userThreads' = (req[r].sessionId :>
                  NewThreadInfo(nextThreadId, req[r].userCases)) @@ userThreads
            /\ req' = [req EXCEPT ![r].pc = "message", ![r].threadId = nextThreadId]
       ELSE /\ req' = [req EXCEPT ![r] = Done(ErrorResponse(req[r], "error"))]
            /\ UNCHANGED <<userThreads, engineThreads, nextThreadId>>
  /\ UNCHANGED <<syncVars, saStaff, blobs, now, tokenVars, engine, notesSync>>

\* POST /api/chat/clear, server.js:943-961
ClearStart(r, tok) ==
  /\ Free(r)
  /\ tok \in 1..Len(tokens)
  /\ LET user == ReqUser(tok)
         rq0  == [IdleReq EXCEPT !.kind = "clear", !.tok = tok,
                                 !.sessionId = user.sessionId, !.userCases = user.cases]
         rq1  == deleteThreadEnter(rq0, userThreads, "clear")
     IN  req' = [req EXCEPT ![r] = rq1]
  /\ UNCHANGED <<syncVars, saStaff, blobs, now, tokenVars, threadVars, engine, notesSync>>

-----------------------------------------------------------------------------
(* Authorization enforcement pipeline: runAgentConversation, server.js:372-588 *)

maxIterations == 60
MaxToolRounds == 1

\* server.js:399: messages.create returns, or throws (it throws on a thread the
\* engine does not have).
RunMessageCreated(r, ok) ==
  /\ req[r].pc = "message"
  /\ ok => req[r].threadId \in engineThreads
  /\ IF ok
       THEN req' = [req EXCEPT ![r].pc = "run"]
       ELSE req' = [req EXCEPT ![r] = Done(ErrorResponse(req[r], "error"))]
  /\ UNCHANGED <<syncVars, saStaff, blobs, now, tokenVars, threadVars, engine, notesSync>>

\* server.js:405-423: runs.create returns or throws.
RunCreated(r, ok) ==
  /\ req[r].pc = "run"
  /\ ok => req[r].threadId \in engineThreads
  /\ IF ok
       THEN req' = [req EXCEPT ![r].pc = "poll"]
       ELSE req' = [req EXCEPT ![r] = Done(ErrorResponse(req[r], "error"))]
  /\ UNCHANGED <<syncVars, saStaff, blobs, now, tokenVars, threadVars, engine, notesSync>>

ToolFilter_NoAdmin(userCases) == [kind |-> "or", eq |-> userCases]

\* server.js:461-464: the filter passed to the search of the tool.
ToolFilter(userCases) ==
  IF Includes(userCases, Star) THEN NoFilter ELSE [kind |-> "or", eq |-> userCases]

TurnFilter_Stored(rq) ==
  IF rq.sessionId \in DOMAIN userThreads THEN userThreads[rq.sessionId].filter
  ELSE ToolFilter(rq.userCases)

\* The filter a turn passes to the search: built from the userCases argument
\* of runAgentConversation, which the handler takes from the token of the
\* request (server.js:898, 918).
TurnFilter(rq) == ToolFilter(rq.userCases)

RunStatuses == {"queued", "in_progress", "requires_action", "completed", "failed",
                "cancelled", "throws"}

RunPoll_NoCeiling(r, status, toolCalls, hits) ==
  /\ req[r].pc = "poll"
  /\ req[r].threadId \notin engineThreads => status = "throws"
  /\ status \in {"queued", "in_progress"} => engine.slow
  /\ status = "requires_action" => engine.tools
  /\ IF status = "requires_action" /\ toolCalls
       THEN /\ req[r].toolRounds < MaxToolRounds
            /\ hits \in SearchResults(TurnFilter(req[r]))
       ELSE hits = <<>>
  /\ LET rq == [req[r] EXCEPT !.iterations = @ + 1]
     IN  req' = [req EXCEPT ![r] =
           IF status = "throws" THEN Done(ErrorResponse(rq, "error"))
           ELSE IF status = "requires_action"
             THEN IF ~toolCalls
                    THEN [rq EXCEPT !.pc = "list", !.runStatus = status]
                    ELSE [rq EXCEPT !.toolRounds = @ + 1,
                                    !.searchFilter = TurnFilter(req[r]),
                                    !.toolRetrievedDocuments =
                                       @ \o [i \in 1..Len(hits) |-> DocInfo(hits[i])]]
           ELSE IF status = "completed" THEN [rq EXCEPT !.pc = "list", !.runStatus = status]
           ELSE IF status \in {"failed", "cancelled"} THEN Done(ErrorResponse(rq, "failed"))
           ELSE rq]
  /\ UNCHANGED <<syncVars, saStaff, blobs, now, tokenVars, threadVars, engine, notesSync>>

\* server.js:429-534: one turn of the polling loop: the sleep, runs.get and
\* what follows up to the next sleep.  status is the run status read (or
\* "throws": runs.get or submitToolOutputs throws); toolCalls: whether
\* requiredAction carries tool calls; hits: the result of the tool's search.
\* searchFilter records the filter of the latest search of the turn, runStatus
\* the status read by the turn of the loop that left the loop.
RunPoll(r, status, toolCalls, hits) ==
  /\ req[r].pc = "poll"
  /\ req[r].threadId \notin engineThreads => status = "throws"
  /\ status \in {"queued", "in_progress"} => engine.slow
  /\ status = "requires_action" => engine.tools
  /\ IF status = "requires_action" /\ toolCalls
       THEN /\ req[r].toolRounds < MaxToolRounds
            /\ hits \in SearchResults(TurnFilter(req[r]))
       ELSE hits = <<>>
  /\ LET rq == [req[r] EXCEPT !.iterations = @ + 1]
     IN  req' = [req EXCEPT ![r] =
           IF status = "throws" THEN Done(ErrorResponse(rq, "error"))
           ELSE IF rq.iterations >= maxIterations THEN Done(ErrorResponse(rq, "timeout"))
           ELSE IF status = "requires_action"
             THEN IF ~toolCalls
                    THEN [rq EXCEPT !.pc = "list", !.runStatus = status]
                    ELSE [rq EXCEPT !.toolRounds = @ + 1,
                                    !.searchFilter = TurnFilter(req[r]),
                                    !.toolRetrievedDocuments =
                                       @ \o [i \in 1..Len(hits) |-> DocInfo(hits[i])]]
           ELSE IF status = "completed" THEN [rq EXCEPT !.pc = "list", !.runStatus = status]
           ELSE IF status \in {"failed", "cancelled"} THEN Done(ErrorResponse(rq, "failed"))
           ELSE rq]
  /\ UNCHANGED <<syncVars, saStaff, blobs, now, tokenVars, threadVars, engine, notesSync>>

\* server.js:536-583 and 920-928: messages.list returns (or throws) and the
\* response is built and sent.
RunListed(r, ok) ==
  /\ req[r].pc = "list"
  /\ ok => req[r].threadId \in engineThreads
  /\ req' = [req EXCEPT ![r] = Done(
        IF ok THEN AnswerResponse(req[r], UniqueCitations(req[r].toolRetrievedDocuments))
        ELSE ErrorResponse(req[r], "error"))]
  /\ UNCHANGED <<syncVars, saStaff, blobs, now, tokenVars, threadVars, engine, notesSync>>

-----------------------------------------------------------------------------
(* Document resolver: POST /api/documents/get-url, server.js:977-1124 *)

Case2509   == <<"2", "5", "0", "9">>
Case250961 == <<"2", "5", "0", "9", "6", "1">>

\* An object store whose case numbers have four, five and six digits, in
\* listing order.
ResolveStore ==
  << Case2509 \o Slash \o <<"s">>,
     Case96 \o Slash \o <<"a">>,
     Case250961 \o Slash \o <<"x">>,
     Case97 \o Slash \o <<"c">>,
     <<"m", "i", "s", "c">> \o Slash \o <<"d">> >>

\* Documents of the index over ResolveStore; the url of a chunk ends in its
\* chunk number.
DocX == [title |-> "x.pdf", url |-> Case250961 \o Slash \o <<"x", "7">>,
         case_number |-> Case250961]
ResolveDocs == {DocA, DocX}

NoDoc == [title |-> "", url |-> NoString, case_number |-> NoString]

\* s without the longest suffix of characters of `chars`
RECURSIVE StripTrailing(_, _)
StripTrailing(s, chars) ==
  IF s # <<>> /\ s[Len(s)] \in chars THEN StripTrailing(SubSeq(s, 1, Len(s) - 1), chars)
  ELSE s

\* server.js:243-330, getBlobPathFromIndex.  bestMatch is the candidate the
\* scoring loop ends with (NoDoc: no keywords, no candidate with a url and a
\* positive score, a best score under 0.5, or the search threw); the index is
\* not trusted, so it may be any of its documents.
getBlobPathFromIndex(filename, bestMatch) ==
  IF bestMatch = NoDoc \/ bestMatch.url = NoString THEN NoString
  ELSE StripTrailing(StripTrailing(decodeURIComponent(bestMatch.url), Digits), {"."})

\* blobClient.exists(), server.js:998 (when it throws the path is dropped too)
Exists(path, throws) == ~throws /\ Includes(blobs, path)

\* String.prototype.toLowerCase over the letters of the file names
UpperCase == <<"A", "B", "C", "D", "E", "F", "G", "H", "I", "J", "K", "L", "M",
               "N", "O", "P", "Q", "R", "S", "T", "U", "V", "W", "X", "Y", "Z">>
LowerCase == <<"a", "b", "c", "d", "e", "f", "g", "h", "i", "j", "k", "l", "m",
               "n", "o", "p", "q", "r", "s", "t", "u", "v", "w", "x", "y", "z">>

LowerOfUpper ==
  [c \in {UpperCase[k] : k \in 1..Len(UpperCase)} |->
     LowerCase[CHOOSE k \in 1..Len(UpperCase) : UpperCase[k] = c]]

toLowerCase(s) ==
  [i \in 1..Len(s) |-> IF s[i] \in DOMAIN LowerOfUpper THEN LowerOfUpper[s[i]] ELSE s[i]]

\* The characters of /[_\-\s]/ that occur in file names
Separators == {"_", "-", " "}

\* The endings of /\.(pdf|docx?|xlsx?|msg|txt)$/i, of a lower-case name
Extensions ==
  { <<".", "p", "d", "f">>, <<".", "d", "o", "c">>, <<".", "d", "o", "c", "x">>,
    <<".", "x", "l", "s">>, <<".", "x", "l", "s", "x">>, <<".", "m", "s", "g">>,
    <<".", "t", "x", "t">> }

EndsWith(s, e) == Len(e) <= Len(s) /\ SubSeq(s, Len(s) - Len(e) + 1, Len(s)) = e

StripExtension(s) ==
  IF \E e \in Extensions : EndsWith(s, e)
    THEN SubSeq(s, 1, Len(s) - Len(CHOOSE e \in Extensions : EndsWith(s, e)))
    ELSE s

\* part_008:1718-1721 and 1729-1732: lower case, separators removed, then the
\* extension removed.
Normalized(name) ==
  LET IsKept(c) == c \notin Separators
  IN  StripExtension(SelectSeq(toLowerCase(name), IsKept))

\* s.split(/[-_\s]+/): the words between runs of separators (an empty first or
\* last word when s starts or ends with one); cur is the word being read.
RECURSIVE SplitWords(_, _)
SplitWords(s, cur) ==
  IF s = <<>> THEN <<cur>>
  ELSE IF Head(s) \in Separators
    THEN IF Len(s) > 1 /\ s[2] \in Separators THEN SplitWords(Tail(s), cur)
         ELSE <<cur>> \o SplitWords(Tail(s), <<>>)
  ELSE SplitWords(Tail(s), Append(cur, Head(s)))

\* part_008:1749-1753
Keywords(filename) ==
  LET IsKeyword(word) == Len(word) > 3 /\ ~IsAllDigits(word)
  IN  SelectSeq(SplitWords(StripExtension(toLowerCase(filename)), <<>>), IsKeyword)

\* String.prototype.includes
Contains(s, kw) == \E i \in 1..(Len(s) - Len(kw) + 1) : SubSeq(s, i, i + Len(kw) - 1) = kw

\* part_008:1762-1769: at least 80% of the keywords occur in the lower-case
\* name of the blob; with no keyword the percentage is NaN and nothing matches.
KeywordMatch(filename, blobFilename) ==
  LET keywords   == Keywords(filename)
      matchCount == Cardinality({i \in 1..Len(keywords) :
                                   Contains(toLowerCase(blobFilename), keywords[i])})
  IN  Len(keywords) > 0 /\ matchCount * 100 >= 80 * Len(keywords)

\* The matching strategies of the storage search, in their order: the exact
\* name (server.js:345-347), the name regardless of case (part_008:1703), the
\* normalized name (part_008:1734), the keywords (part_008:1769).
StrategyMatches(k, filename, blobFilename) ==
  CASE k = 1 -> blobFilename = filename
    [] k = 2 -> toLowerCase(blobFilename) = toLowerCase(filename)
    [] k = 3 -> Normalized(blobFilename) = Normalized(filename)
    [] k = 4 -> KeywordMatch(filename, blobFilename)

\* server.js:335-362, findDocumentInStorage: the first blob, in case order and
\* listing order, under a prefix of userCases whose file name is filename.
RECURSIVE findDocumentInStorage(_, _)
findDocumentInStorage(filename, casesToSearch) ==
  IF casesToSearch = <<>> THEN NoString
  ELSE LET prefix == IF Head(casesToSearch) = Star THEN <<>> ELSE Head(casesToSearch)
           found  == {i \in 1..Len(blobs) :
                        StartsWith(blobs[i], prefix) /\ LastSegment(blobs[i]) = filename}
       IN  IF found # {} THEN blobs[CHOOSE i \in found : \A j \in found : i <= j]
           ELSE findDocumentInStorage(filename, Tail(casesToSearch))

\* The collaborators the cascade has invoked: blobClient.exists ("exists"),
\* getBlobPathFromIndex ("search") and findDocumentInStorage ("list").
CascadeCalls(hinted, searched, probed, listed) ==
  (IF hinted \/ probed THEN {"exists"} ELSE {})
    \cup (IF searched THEN {"search"} ELSE {})
    \cup (IF listed THEN {"list"} ELSE {})

ResolvePath_SearchFirst(filename, blobPath, userCases, bestMatch, throws) ==
  LET p1 == IF blobPath # NoString /\ Exists(blobPath, throws) THEN blobPath ELSE NoString
      s2 == filename # NoString
      i2 == IF s2 THEN getBlobPathFromIndex(filename, bestMatch) ELSE NoString
      p2 == IF i2 # NoString /\ Exists(i2, throws) THEN i2 ELSE NoString
      s3 == p1 = NoString /\ p2 = NoString /\ filename # NoString
      p3 == IF s3
              THEN findDocumentInStorage(filename,
                     IF Includes(userCases, Star) THEN <<Star>> ELSE userCases)
              ELSE NoString
      calls == CascadeCalls(blobPath # NoString, s2, i2 # NoString, s3)
  IN  IF p1 # NoString THEN [blobPath |-> p1, source |-> "index-direct", calls |-> calls]
      ELSE IF p2 # NoString THEN [blobPath |-> p2, source |-> "index-search", calls |-> calls]
      ELSE [blobPath |-> p3, source |-> "fallback", calls |-> calls]

\* server.js:988-1042: the cascade; [blobPath, source] and the collaborators
\* invoked on the way.
ResolvePath(filename, blobPath, userCases, bestMatch, throws) ==
  LET p1 == IF blobPath # NoString /\ Exists(blobPath, throws) THEN blobPath ELSE NoString
      s2 == p1 = NoString /\ filename # NoString
      i2 == IF s2 THEN getBlobPathFromIndex(filename, bestMatch) ELSE NoString
      p2 == IF i2 # NoString /\ Exists(i2, throws) THEN i2 ELSE NoString
      s3 == p1 = NoString /\ p2 = NoString /\ filename # NoString
      p3 == IF s3
              THEN findDocumentInStorage(filename,
                     IF Includes(userCases, Star) THEN <<Star>> ELSE userCases)
              ELSE NoString
      calls == CascadeCalls(blobPath # NoString, s2, i2 # NoString, s3)
  IN  IF p1 # NoString THEN [blobPath |-> p1, source |-> "index-direct", calls |-> calls]
      ELSE IF p2 # NoString THEN [blobPath |-> p2, source |-> "index-search", calls |-> calls]
      ELSE [blobPath |-> p3, source |-> "fallback", calls |-> calls]

\* server.js:1053-1054: finalBlobPath.match(/^(\d{5})/)
ActualCase(path) ==
  IF Len(path) >= 5 /\ \A i \in 1..5 : path[i] \in Digits THEN SubSeq(path, 1, 5)
  ELSE NoString

\* server.js:1056-1060
AccessDenied(actualCase, userCases) ==
  /\ actualCase # NoString
  /\ ~Includes(userCases, Star)
  /\ ~Includes(userCases, actualCase)

\* server.js:1089: the signature expires 24 * 60 * 60 * 1000 ms after issue
SasHours == 24

Grant_Container(blobPath) == [blobName |-> NoString, permissions |-> "r", hours |-> SasHours]

\* server.js:1083-1094, generateBlobSASQueryParameters: the blob the signature
\* is for, its permissions and the hours from issue to expiresOn.
Grant(blobPath) == [blobName |-> blobPath, permissions |-> "r", hours |-> SasHours]

\* server.js:1044-1116: the response for the path the cascade found.
UrlResponse(tok, found, userCases) ==
  IF found.blobPath = NoString
    THEN [NoResponse EXCEPT !.tok = tok, !.status = 404, !.kind = "notFound",
                            !.calls = found.calls]
  ELSE IF AccessDenied(ActualCase(found.blobPath), userCases)
    THEN [NoResponse EXCEPT !.tok = tok, !.status = 403, !.kind = "denied",
                            !.documentCase = ActualCase(found.blobPath),
                            !.userCases = userCases, !.calls = found.calls]
  ELSE [NoResponse EXCEPT !.tok = tok, !.status = 200, !.kind = "url",
                          !.blobPath = found.blobPath, !.source = found.source,
                          !.documentCase = ActualCase(found.blobPath),
                          !.calls = found.calls, !.grant = Grant(found.blobPath)]

\* POST /api/documents/get-url.  The handler reads the token and the object
\* store and writes nothing the server keeps, so its awaits are one step.
\* hintFound records the path hint of the request when the store has an object
\* at it and the existence probe answered; filename is the name the storage
\* enumeration was called with (server.js:1034-1038), when it was called.
GetUrlResponse(tok, filename, blobPath, bestMatch, throws) ==
  LET userCases == ReqUser(tok).cases
      resp == UrlResponse(tok,
                ResolvePath(filename, blobPath, userCases, bestMatch, throws), userCases)
  IN  [resp EXCEPT
         !.filename = IF "list" \in resp.calls THEN filename ELSE NoString,
         !.hintFound =
           IF blobPath # NoString /\ Exists(blobPath, throws) THEN blobPath
           ELSE NoString]

GetUrl(r, tok, filename, blobPath, bestMatch, throws) ==
  /\ Free(r)
  /\ tok \in 1..Len(tokens)
  /\ req' = [req EXCEPT ![r] = Done(GetUrlResponse(tok, filename, blobPath, bestMatch, throws))]
  /\ UNCHANGED <<syncVars, saStaff, blobs, now, tokenVars, threadVars, engine, notesSync>>

-----------------------------------------------------------------------------
(* The scoring of the index lookup, server.js:243-330 *)

\* A result of searchClient.search: select is ['url', 'title'].
Candidate(title, url) == [title |-> title, url |-> url]

\* replace(/\.(pdf|docx?|xlsx?|msg|txt)$/i, '') of a name in any case
StripExtensionAnyCase(s) == SubSeq(s, 1, Len(StripExtension(toLowerCase(s))))

\* replace(/\d{8}/g, ''): every run of eight digits, from the left
RECURSIVE RemoveEightDigits(_)
RemoveEightDigits(s) ==
  IF s = <<>> THEN <<>>
  ELSE IF Len(s) >= 8 /\ \A i \in 1..8 : s[i] \in Digits
    THEN RemoveEightDigits(SubSeq(s, 9, Len(s)))
  ELSE <<Head(s)>> \o RemoveEightDigits(Tail(s))

\* server.js:253-263 and 286: the lower-case query keywords of a file name.
\* The extension goes, '_' and '-' become blanks (after which the two date
\* patterns, which need a '-', match nothing), runs of eight digits go; the
\* words of four characters or more that are not numbers are kept, five at
\* most.
IndexKeywords(filename) ==
  LET stripped == StripExtensionAnyCase(filename)
      blanked == [i \in 1..Len(stripped) |->
                    IF stripped[i] \in {"_", "-"} THEN " " ELSE stripped[i]]
      IsKeyword(word) == Len(word) >= 4 /\ ~IsAllDigits(word)
      words == SelectSeq(SplitWords(RemoveEightDigits(blanked), <<>>), IsKeyword)
      kept  == SubSeq(words, 1, IF Len(words) < 5 THEN Len(words) ELSE 5)
  IN  [i \in 1..Len(kept) |-> toLowerCase(kept[i])]

\* server.js:288-293: the keywords the lower-case title contains
Matches_Of(keywordsArray, docTitle) ==
  LET docTitleLower == toLowerCase(docTitle)
  IN  Cardinality({i \in 1..Len(keywordsArray) : Contains(docTitleLower, keywordsArray[i])})

\* server.js:279-305: the loop over the results; best is the candidate kept so
\* far (NoDoc: none) and bestMatches the keywords it matched.  All scores
\* have the denominator Len(keywordsArray), so they compare as their counts.
RECURSIVE ScoreLoop(_, _, _, _)
ScoreLoop(results, keywordsArray, best, bestMatches) ==
  IF results = <<>> THEN [best |-> best, matches |-> bestMatches]
  ELSE LET result  == Head(results)
           matches == Matches_Of(keywordsArray, result.title)
       IN  IF matches > bestMatches /\ result.url # NoString
             THEN ScoreLoop(Tail(results), keywordsArray,
                            [NoDoc EXCEPT !.url = result.url], matches)
             ELSE ScoreLoop(Tail(results), keywordsArray, best, bestMatches)

BestMatch_NoThreshold(filename, results, searchOk) ==
  LET keywordsArray == IndexKeywords(filename)
      loop == ScoreLoop(results, keywordsArray, NoDoc, 0)
  IN  IF keywordsArray = <<>> \/ ~searchOk THEN NoDoc
      ELSE loop.best

\* server.js:265-268, 307 and 323-326: the candidate whose path the lookup
\* returns: none without keywords, when the search throws, or when the best
\* score is under 0.5.
BestMatch(filename, results, searchOk) ==
  LET keywordsArray == IndexKeywords(filename)
      loop == ScoreLoop(results, keywordsArray, NoDoc, 0)
  IN  IF keywordsArray = <<>> \/ ~searchOk THEN NoDoc
      ELSE IF loop.best # NoDoc /\ 2 * loop.matches >= Len(keywordsArray) THEN loop.best
      ELSE NoDoc

\* POST /api/documents/get-url for a name, with the results the search of the
\* index gives for its keywords.  results, filename and indexPath record the
\* results, the name and what getBlobPathFromIndex returned.
IndexLookup(r, tok, filename, results, searchOk, throws) ==
  /\ Free(r)
  /\ tok \in 1..Len(tokens)
  /\ LET bestMatch == BestMatch(filename, results, searchOk)
         resp == GetUrlResponse(tok, filename, NoString, bestMatch, throws)
     IN  req' = [req EXCEPT ![r] = Done([resp EXCEPT
                   !.filename = filename,
                   !.results = IF searchOk THEN results ELSE <<>>,
                   !.indexPath = getBlobPathFromIndex(filename, bestMatch)])]
  /\ UNCHANGED <<syncVars, saStaff, blobs, now, tokenVars, threadVars, engine, notesSync>>

-----------------------------------------------------------------------------
(* Authentication middleware and the protected endpoints, server.js:875-977 *)

\* What a request carries as its Authorization header: nothing, a string that
\* is no token of this server, a token of this server past its expiry, or a
\* token that verifies.  jwt.verify reads the clock, so expiry is the
\* environment's choice.
HeaderKinds == {"missing", "invalid", "expired", "valid"}

Header(kind, tok) == [kind |-> kind, tok |-> IF kind \in {"expired", "valid"} THEN tok ELSE 0]

authenticateToken_IgnoreExpiration(header) ==
  IF header.kind = "missing" THEN 401
  ELSE IF header.kind = "invalid" THEN 403
  ELSE 0

\* server.js:875-890: the status the middleware answers with, or 0 when it
\* calls next().
authenticateToken(header) ==
  IF header.kind = "missing" THEN 401
  ELSE IF header.kind \in {"invalid", "expired"} THEN 403
  ELSE 0

\* server.js:880 and 885: the answer of the middleware.
RejectedResponse(status) == [NoResponse EXCEPT !.status = status, !.kind = "rejected"]

\* GET /api/me, server.js:966-972
Me(r, tok) ==
  /\ Free(r)
  /\ tok \in 1..Len(tokens)
  /\ req' = [req EXCEPT ![r] = Done([NoResponse EXCEPT !.tok = tok, !.status = 200,
                 !.kind = "me", !.userCases = ReqUser(tok).cases])]
  /\ UNCHANGED <<syncVars, saStaff, blobs, now, tokenVars, threadVars, engine, notesSync>>

Endpoints == {"me", "chat", "clear", "get-url"}

\* A request to a protected endpoint: the middleware, then the handler.
Protected(r, endpoint, header) ==
  IF authenticateToken(header) # 0
    THEN /\ Free(r)
         /\ req' = [req EXCEPT ![r] = Done(RejectedResponse(authenticateToken(header)))]
         /\ UNCHANGED <<syncVars, saStaff, blobs, now, tokenVars, threadVars, engine, notesSync>>
    ELSE \/ endpoint = "me" /\ Me(r, header.tok)
         \/ endpoint = "chat" /\ \E clearThread \in BOOLEAN : ChatStart(r, header.tok, clearThread)
         \/ endpoint = "clear" /\ ClearStart(r, header.tok)
         \/ endpoint = "get-url" /\ GetUrl(r, header.tok, NoString, SyncStore[3], NoDoc, FALSE)

\* server.js:1169-1179: one readable record per key of byUserId.
readableUsers(cache) ==
  { [id |-> id, name |-> cache.byUserId[id].name, email |-> cache.byUserId[id].email,
     role |-> cache.byUserId[id].role, casesCount |-> Len(cache.byUserId[id].cases),
     cases |-> cache.byUserId[id].cases] : id \in DOMAIN cache.byUserId }

\* GET /api/admin/cache-status, server.js:1164-1205: the route is registered
\* with its handler alone, so the handler runs whatever the request carries
\* and answers with the readable records of the whole Directory.  tok records
\* the token the request presented when it is one that verifies, 0 otherwise.
CacheStatus(r, header) ==
  /\ Free(r)
  /\ header.tok <= Len(tokens)
  /\ req' = [req EXCEPT ![r] = Done([NoResponse EXCEPT
                 !.tok = IF authenticateToken(header) = 0 THEN header.tok ELSE 0,
                 !.status = 200, !.kind = "cache-status",
                 !.data = readableUsers(permissionsCache)])]
  /\ UNCHANGED <<syncVars, saStaff, blobs, now, tokenVars, threadVars, engine, notesSync>>

-----------------------------------------------------------------------------
(* Notes synchronizer: sync-notes.js (src/unnamed/part_005) *)

\* A note of the authority; a date that is absent is NoNumber.
Note(noteID, createdDate, modifiedDate) ==
  [noteID |-> noteID, createdDate |-> createdDate, modifiedDate |-> modifiedDate]

\* The notes the authority may hold for one case: none, one, two, and the two
\* with the first one modified.
NotesChoices ==
  { <<>>,
    <<Note(1, 1, NoNumber)>>,
    <<Note(1, 1, NoNumber), Note(2, 2, NoNumber)>>,
    <<Note(1, 1, 2), Note(2, 2, NoNumber)>> }

\* a || b on dates
OrDate(a, b) == IF a # NoNumber THEN a ELSE b

\* part_005:378-388: the cache entry of a case, noteID -> dates.
createNotesIndex(notes) ==
  [id \in {notes[i].noteID : i \in 1..Len(notes)} |->
     LET last == CHOOSE i \in 1..Len(notes) :
                   /\ notes[i].noteID = id
                   /\ \A j \in 1..Len(notes) : notes[j].noteID = id => j <= i
     IN  [createdDate |-> notes[last].createdDate, modifiedDate |-> notes[last].modifiedDate]]

\* The notes of a list that satisfy a test, in the order of the list.
RECURSIVE NotesWhere(_, _, _)
NotesWhere(notes, cachedNotes, kind) ==
  IF notes = <<>> THEN <<>>
  ELSE LET note == Head(notes)
           is   == IF note.noteID \notin DOMAIN cachedNotes THEN "new"
                   ELSE IF OrDate(note.modifiedDate, note.createdDate)
                           # OrDate(cachedNotes[note.noteID].modifiedDate,
                                    cachedNotes[note.noteID].createdDate)
                     THEN "modified" ELSE "unchanged"
       IN  (IF is = kind THEN <<note>> ELSE <<>>)
             \o NotesWhere(Tail(notes), cachedNotes, kind)

identifyNotesToSync_All(notes, cachedNotes) ==
  [new |-> notes, modified |-> <<>>, unchanged |-> <<>>]

\* part_005:316-346.  cachedNotes is EmptyMap for a case the cache has no
\* entry for.
identifyNotesToSync(notes, cachedNotes) ==
  IF DOMAIN cachedNotes = {}
    THEN [new |-> notes, modified |-> <<>>, unchanged |-> <<>>]
    ELSE [new       |-> NotesWhere(notes, cachedNotes, "new"),
          modified  |-> NotesWhere(notes, cachedNotes, "modified"),
          unchanged |-> NotesWhere(notes, cachedNotes, "unchanged")]

NoToSync == [new |-> <<>>, modified |-> <<>>, unchanged |-> <<>>]

\* The script is not running; no cache file; the authority holds one note for
\* case 25096.  file: ./notes-cache.json; notesCache: the cache in memory;
\* loaded: history, what loadNotesCache returned; queue: the notes of the
\* case still to upload; last, lastOk: history, the note of the latest upload
\* and whether it succeeded.
NotesIdle ==
  [pc |-> "idle", file |-> EmptyMap, notesCache |-> EmptyMap, loaded |-> EmptyMap,
   caseNumbers |-> <<>>, i |-> 0, notes |-> <<>>, toSync |-> NoToSync, queue |-> <<>>,
   uploaded |-> 0, failed |-> 0, last |-> Note(NoNumber, NoNumber, NoNumber),
   lastOk |-> FALSE,
   sa |-> [c \in {Case96, Case97} |-> IF c = Case96 THEN <<Note(1, 1, NoNumber)>> ELSE <<>>]]

\* part_005:71-105: the all-digit first segments of the names with a slash;
\* the store lists in lexicographic order, which is the order of sort().
getCaseNumbersFromAzureStorage(listing) ==
  CaseNumbersOf(SelectSeq(listing, LAMBDA name : FirstSlash(name) <= Len(name)))

CachedNotes(cache, caseNumber) ==
  IF caseNumber \in DOMAIN cache THEN cache[caseNumber] ELSE EmptyMap

\* part_005:545-551 and the loop header: on to the next case, or the loop has
\* ended and the cache is saved (writeFileSync may throw: the error is logged).
NotesNextCase(l, saveOk) ==
  LET l1 == [l EXCEPT !.notes = <<>>, !.toSync = NoToSync, !.queue = <<>>,
                      !.uploaded = 0, !.failed = 0]
  IN  IF l.i < Len(l.caseNumbers)
        THEN [l1 EXCEPT !.i = @ + 1, !.pc = "case"]
        ELSE [l1 EXCEPT !.pc = "idle", !.i = 0, !.caseNumbers = <<>>,
                        !.file = IF saveOk THEN l.notesCache ELSE @]

\* part_005:392-432: the script starts: it authenticates, loads the cache
\* (an unreadable file counts as no cache) and lists the cases.
NotesStart(loadOk) ==
  /\ notesSync.pc = "idle"
  /\ LET cache == IF loadOk THEN notesSync.file ELSE EmptyMap
         cases == getCaseNumbersFromAzureStorage(blobs)
     IN  notesSync' = IF cases = <<>> THEN notesSync
                      ELSE [notesSync EXCEPT !.pc = "case", !.notesCache = cache,
                                             !.loaded = cache, !.caseNumbers = cases,
                                             !.i = 1]
  /\ UNCHANGED <<syncVars, saStaff, blobs, now, tokenVars, threadVars, req, engine>>

\* part_005:444-478: the notes of case caseNumbers[i] arrive ([] when the
\* request failed) and are compared with the cache.
NotesFetched(fetchOk, saveOk) ==
  /\ notesSync.pc = "case"
  /\ LET l == notesSync
         caseNumber == l.caseNumbers[l.i]
         notes  == IF fetchOk THEN l.sa[caseNumber] ELSE <<>>
         toSync == identifyNotesToSync(notes, CachedNotes(l.notesCache, caseNumber))
     IN  notesSync' =
           IF notes = <<>> \/ Len(toSync.new) + Len(toSync.modified) = 0
             THEN NotesNextCase(l, saveOk)
             ELSE [l EXCEPT !.pc = "upload", !.notes = notes, !.toSync = toSync,
                            !.queue = toSync.new \o toSync.modified]
  /\ UNCHANGED <<syncVars, saStaff, blobs, now, tokenVars, threadVars, req, engine>>

\* part_005:480-541: one upload returns; after the last one of the case the
\* cache entry of the case is replaced if any upload succeeded.
NotesUploaded(ok, saveOk) ==
  /\ notesSync.pc = "upload"
  /\ LET l  == notesSync
         l1 == [l EXCEPT !.queue = Tail(@), !.last = Head(l.queue), !.lastOk = ok,
                         !.uploaded = IF ok THEN @ + 1 ELSE @,
                         !.failed = IF ok THEN @ ELSE @ + 1]
         l2 == IF l1.uploaded > 0
                 THEN [l1 EXCEPT !.notesCache =
                         (l.caseNumbers[l.i] :> createNotesIndex(l.notes)) @@ @]
                 ELSE l1
     IN  notesSync' = IF l1.queue # <<>> THEN l1 ELSE NotesNextCase(l2, saveOk)
  /\ UNCHANGED <<syncVars, saStaff, blobs, now, tokenVars, threadVars, req, engine>>

\* The authority adds, modifies or removes notes of a case.
SAChangeNotes(c, notes) ==
  /\ notesSync.sa[c] # notes
  /\ notesSync' = [notesSync EXCEPT !.sa[c] = notes]
  /\ UNCHANGED <<syncVars, saStaff, blobs, now, tokenVars, threadVars, req, engine>>

-----------------------------------------------------------------------------
(* Specifications *)

InitIdle ==
  /\ notesSync = NotesIdle
  /\ tokens = <<>>
  /\ issued = <<>>
  /\ loginResp = NoLogin
  /\ userThreads = EmptyMap
  /\ engineThreads = {}
  /\ nextThreadId = 1
  /\ req = [r \in ReqIds |-> IdleReq]
  /\ engine = [slow |-> FALSE, tools |-> FALSE, index |-> {}, honest |-> FALSE]

InitSyncSpec ==
  /\ InitSync
  /\ InitIdle
  /\ blobs = SyncStore
  /\ saStaff \in [Range(CaseNumbersOf(SyncStore)) -> RosterChoices]
  /\ now = 0

NextSync ==
  \/ TimerSync
  \/ \E p \in {"force1", "force2"}, secretOk \in BOOLEAN : ForceSync(p, secretOk)
  \/ \E p \in SyncCallers, authOk \in BOOLEAN : SyncAuthReturn(p, authOk)
  \/ \E p \in SyncCallers, listOk \in BOOLEAN : SyncListReturn(p, listOk)
  \/ \E p \in SyncCallers, outcome \in {"array", "notArray", "error"} : SyncStaffReturn(p, outcome)
  \/ \E c \in DOMAIN saStaff, roster \in RosterChoices : SAChangeStaff(c, roster)
  \/ Tick

SpecSync == InitSyncSpec /\ [][NextSync]_vars

\* The synchronizer against an authority that answers some roster lookups with
\* 401 (the service token has expired) or 404.
NextRoster ==
  \/ TimerSync
  \/ \E p \in {"startup", "timer"}, authOk \in BOOLEAN : SyncAuthReturn(p, authOk)
  \/ \E p \in {"startup", "timer"} : SyncListReturn(p, TRUE)
  \/ \E p \in {"startup", "timer"}, outcome \in {"array", "expired", "notFound"} :
        SyncStaffReturn(p, outcome)
  \/ \E c \in DOMAIN saStaff, roster \in RosterChoices : SAChangeStaff(c, roster)

SpecRoster == InitSyncSpec /\ [][NextRoster]_vars

\* The synchronizer while the store gains and loses the objects of a case
\* that the authority keeps a roster for.
NextListing ==
  \/ TimerSync
  \/ \E p \in {"startup", "timer"} : SyncAuthReturn(p, TRUE)
  \/ \E p \in {"startup", "timer"}, listOk \in BOOLEAN : SyncListReturn(p, listOk)
  \/ \E p \in {"startup", "timer"}, outcome \in {"array", "error"} : SyncStaffReturn(p, outcome)
  \/ \E c \in DOMAIN saStaff, roster \in RosterChoices : SAChangeStaff(c, roster)
  \/ \E store \in {SyncStore, StoreWithout97} : StoreChange(store)

SpecListing == InitSyncSpec /\ [][NextListing]_vars

\* A token as the session issuer signs it for Ana.
TokenOf(sessionDate, cases) ==
  [email |-> <<"a", "@", "x">>, saUsername |-> UserAna, saUserID |-> 1,
   name |-> <<"A", " ", "L">>, cases |-> cases,
   sessionId |-> SessionIdOf(UserAna, sessionDate)]

\* The server has restarted and its startup sync has failed: the Directory is
\* empty, no sync runs, and the tokens signed before the restart are valid.
\* Tokens of three logins that fell into the same millisecond under three
\* Directory generations.
ThreadTokens ==
  << TokenOf(0, <<Case96>>), TokenOf(0, <<Case96, Case97>>),
     TokenOf(0, <<Case97, Case96>>) >>

InitQuiet ==
  /\ notesSync = NotesIdle
  /\ permissionsCache = EmptyCache
  /\ syncProc = [p \in SyncCallers |-> IdleProc]
  /\ lastRun = NoRun
  /\ committed = Directory(EmptyCache)
  /\ saStaff = [c \in Range(CaseNumbersOf(SyncStore)) |-> <<StaffAna>>]
  /\ now = 0
  /\ issued = <<>>
  /\ loginResp = NoLogin
  /\ userThreads = EmptyMap
  /\ engineThreads = {}
  /\ nextThreadId = 1
  /\ req = [r \in ReqIds |-> IdleReq]

\* The thread manager under concurrent chat turns and clear requests.
InitThread ==
  /\ InitQuiet
  /\ tokens = ThreadTokens
  /\ blobs = SyncStore
  /\ engine = [slow |-> FALSE, tools |-> FALSE, index |-> {}, honest |-> FALSE]

NextThread ==
  \/ \E r \in ReqIds, tok \in 1..Len(ThreadTokens), clearThread \in BOOLEAN :
        ChatStart(r, tok, clearThread)
  \/ \E r \in ReqIds, tok \in 1..Len(ThreadTokens) : ClearStart(r, tok)
  \/ \E r \in ReqIds, ok \in BOOLEAN : deleteThreadReturn(r, ok)
  \/ \E r \in ReqIds, ok \in BOOLEAN : getOrCreateThreadCreated(r, ok)
  \/ \E r \in ReqIds, ok \in BOOLEAN : RunMessageCreated(r, ok)
  \/ \E r \in ReqIds, ok \in BOOLEAN : RunCreated(r, ok)
  \/ \E r \in ReqIds, status \in RunStatuses : RunPoll(r, status, FALSE, <<>>)
  \/ \E r \in ReqIds, ok \in BOOLEAN : RunListed(r, ok)

SpecThread == InitThread /\ [][NextThread]_vars

\* Tokens of an attorney of one case, of a user without cases and of an
\* administrator (a token of the permission-file deployment, which knew '*').
ChatTokens ==
  << TokenOf(0, <<Case96>>), TokenOf(1, <<>>), TokenOf(2, <<Star>>),
     TokenOf(3, <<Case97, Case96>>) >>

\* One chat turn at a time against a retrieval engine that applies the filter
\* it is given, or one that is not trusted to.
InitChat ==
  /\ InitQuiet
  /\ tokens = ChatTokens
  /\ blobs = SyncStore
  /\ \E honest \in BOOLEAN :
       engine = [slow |-> FALSE, tools |-> TRUE, index |-> IndexDocs, honest |-> honest]

NextChat ==
  \/ \E tok \in 1..Len(ChatTokens), clearThread \in BOOLEAN : ChatStart(1, tok, clearThread)
  \/ \E ok \in BOOLEAN : deleteThreadReturn(1, ok)
  \/ \E ok \in BOOLEAN : getOrCreateThreadCreated(1, ok)
  \/ \E ok \in BOOLEAN : RunMessageCreated(1, ok)
  \/ \E ok \in BOOLEAN : RunCreated(1, ok)
  \/ \E status \in RunStatuses, toolCalls \in BOOLEAN,
          hits \in UNION {[1..n -> IndexDocs] : n \in 0..MaxHits} :
        RunPoll(1, status, toolCalls, hits)
  \/ \E ok \in BOOLEAN : RunListed(1, ok)

SpecChat == InitChat /\ [][NextChat]_vars

\* The two requests in flight of the specifications whose claims are about one
\* request and what a second one may do to it.
PairOfRequests == {1, 2}

\* Two tokens of one session, issued under two Directory generations.
TurnTokens == << TokenOf(0, <<Case96>>), TokenOf(0, <<Case97>>) >>

\* Concurrent chat turns and document requests of one session under the two
\* tokens, against an engine that applies the filter it is given.
InitTurns ==
  /\ InitQuiet
  /\ tokens = TurnTokens
  /\ blobs = SyncStore
  /\ engine = [slow |-> FALSE, tools |-> TRUE, index |-> {DocA, DocC}, honest |-> TRUE]

NextTurns ==
  \/ \E r \in PairOfRequests, tok \in 1..Len(TurnTokens) : ChatStart(r, tok, FALSE)
  \/ \E r \in PairOfRequests, ok \in BOOLEAN : deleteThreadReturn(r, ok)
  \/ \E r \in PairOfRequests : getOrCreateThreadCreated(r, TRUE)
  \/ \E r \in PairOfRequests : RunMessageCreated(r, TRUE)
  \/ \E r \in PairOfRequests : RunCreated(r, TRUE)
  \/ \E r \in PairOfRequests, status \in {"requires_action", "completed"},
          hits \in UNION {[1..n -> {DocA, DocC}] : n \in 0..1} :
        RunPoll(r, status, TRUE, hits)
  \/ \E r \in PairOfRequests : RunListed(r, TRUE)
  \/ \E r \in PairOfRequests, tok \in 1..Len(TurnTokens), hint \in {SyncStore[1], SyncStore[3]} :
        GetUrl(r, tok, NoString, hint, NoDoc, FALSE)

SpecTurns == InitTurns /\ [][NextTurns]_vars

\* Requests with and without a verifying token at the protected endpoints.
InitGate ==
  /\ InitQuiet
  /\ tokens = TurnTokens
  /\ blobs = SyncStore
  /\ engine = [slow |-> FALSE, tools |-> FALSE, index |-> {}, honest |-> FALSE]

NextGate ==
  \/ \E r \in PairOfRequests, endpoint \in Endpoints, kind \in HeaderKinds,
          tok \in 1..Len(TurnTokens) : Protected(r, endpoint, Header(kind, tok))
  \/ \E r \in PairOfRequests : deleteThreadReturn(r, TRUE)
  \/ \E r \in PairOfRequests : getOrCreateThreadCreated(r, TRUE)
  \/ \E r \in PairOfRequests : RunMessageCreated(r, TRUE)
  \/ \E r \in PairOfRequests : RunCreated(r, TRUE)
  \/ \E r \in PairOfRequests : RunPoll(r, "completed", FALSE, <<>>)
  \/ \E r \in PairOfRequests : RunListed(r, TRUE)

SpecGate == InitGate /\ [][NextGate]_vars

\* Chat turns and clears of one session; what the server has begun it
\* finishes (every await returns), the clients send requests when they please.
NextIdle ==
  \/ \E r \in PairOfRequests, tok \in 1..Len(TurnTokens), clearThread \in BOOLEAN :
        ChatStart(r, tok, clearThread)
  \/ \E r \in PairOfRequests, tok \in 1..Len(TurnTokens) : ClearStart(r, tok)
  \/ \E r \in PairOfRequests, ok \in BOOLEAN : deleteThreadReturn(r, ok)
  \/ \E r \in PairOfRequests : getOrCreateThreadCreated(r, TRUE)
  \/ \E r \in PairOfRequests : RunMessageCreated(r, TRUE)
  \/ \E r \in PairOfRequests : RunCreated(r, TRUE)
  \/ \E r \in PairOfRequests : RunPoll(r, "completed", FALSE, <<>>)
  \/ \E r \in PairOfRequests : RunListed(r, TRUE)

\* The steps of the server on behalf of request r.
ServerStep(r) ==
  \/ \E ok \in BOOLEAN : deleteThreadReturn(r, ok)
  \/ getOrCreateThreadCreated(r, TRUE)
  \/ RunMessageCreated(r, TRUE)
  \/ RunCreated(r, TRUE)
  \/ RunPoll(r, "completed", FALSE, <<>>)
  \/ RunListed(r, TRUE)

SpecIdle ==
  /\ InitGate
  /\ [][NextIdle]_vars
  /\ \A r \in PairOfRequests : WF_vars(ServerStep(r))

\* Runs of the notes synchronizer while the authority changes its notes.
InitNotes ==
  /\ InitQuiet
  /\ tokens = <<>>
  /\ blobs = SyncStore
  /\ engine = [slow |-> FALSE, tools |-> FALSE, index |-> {}, honest |-> FALSE]

NextNotes ==
  \/ \E loadOk \in BOOLEAN : NotesStart(loadOk)
  \/ \E fetchOk, saveOk \in BOOLEAN : NotesFetched(fetchOk, saveOk)
  \/ \E ok, saveOk \in BOOLEAN : NotesUploaded(ok, saveOk)
  \/ \E c \in {Case96, Case97}, notes \in NotesChoices : SAChangeNotes(c, notes)

SpecNotes == InitNotes /\ [][NextNotes]_vars

\* Chat turns of callers with one case, no case, '*' and two cases, against an
\* engine that applies the filter it is given and whose runs may stay pending.
\* Each session has one token, so no thread is ever rebound.
InitFilter ==
  /\ InitQuiet
  /\ tokens = ChatTokens
  /\ blobs = SyncStore
  /\ engine = [slow |-> TRUE, tools |-> TRUE, index |-> {DocA, DocC}, honest |-> TRUE]

NextFilter ==
  \/ \E tok \in 1..Len(ChatTokens) : ChatStart(1, tok, FALSE)
  \/ \E ok \in BOOLEAN : getOrCreateThreadCreated(1, ok)
  \/ \E ok \in BOOLEAN : RunMessageCreated(1, ok)
  \/ \E ok \in BOOLEAN : RunCreated(1, ok)
  \/ \E status \in RunStatuses, toolCalls \in BOOLEAN,
          hits \in UNION {[1..n -> {DocA, DocC}] : n \in 0..1} :
        RunPoll(1, status, toolCalls, hits)
  \/ \E ok \in BOOLEAN : RunListed(1, ok)

SpecFilter == InitFilter /\ [][NextFilter]_vars

\* The names and path hints a client may send.
Filenames == {NoString, <<"a">>, <<"x">>, <<"q">>}
PathHints ==
  {NoString, ResolveStore[1], ResolveStore[2], ResolveStore[3], Case96 \o Slash \o <<"q">>}

ResolveTokens ==
  << TokenOf(0, <<Case96>>), TokenOf(1, <<Case97, Case2509>>), TokenOf(2, <<Star>>) >>

\* Document resolution over a store with case numbers of several lengths.
InitResolve ==
  /\ InitQuiet
  /\ tokens = ResolveTokens
  /\ blobs = ResolveStore
  /\ engine = [slow |-> FALSE, tools |-> FALSE, index |-> ResolveDocs, honest |-> FALSE]

NextResolve ==
  \E r \in PairOfRequests, tok \in 1..Len(ResolveTokens), filename \in Filenames,
     blobPath \in PathHints, bestMatch \in ResolveDocs \cup {NoDoc}, throws \in BOOLEAN :
    GetUrl(r, tok, filename, blobPath, bestMatch, throws)

SpecResolve == InitResolve /\ [][NextResolve]_vars

\* The names a client may send for an object the store lists as "a": the
\* name itself, in upper case, with a separator, and names of other objects.
FallbackNames == {<<"a">>, <<"A">>, <<"a", "_">>, <<"x">>, <<"q">>}

\* Document requests that name a file, with no path hint or one the store
\* has no object for, so that the cascade goes on to the index and the
\* storage enumeration.
NextFallback ==
  \E r \in PairOfRequests, tok \in 1..Len(ResolveTokens), filename \in FallbackNames,
     blobPath \in {NoString, Case96 \o Slash \o <<"q">>},
     bestMatch \in ResolveDocs \cup {NoDoc}, throws \in BOOLEAN :
    GetUrl(r, tok, filename, blobPath, bestMatch, throws)

SpecFallback == InitResolve /\ [][NextFallback]_vars

\* The longest list of results a search is given in the model (top: 10 in
\* server.js:273).
MaxResults == 2

Memo == <<"m", "e", "m", "o">>
Plan == <<"p", "l", "a", "n">>
NoteWord == <<"n", "o", "t", "e">>

\* Names with one, two and three keywords, and one with none.
IndexNames ==
  { Memo \o <<".", "p", "d", "f">>,
    <<"M">> \o Tail(Memo) \o <<"_">> \o Plan,
    Memo \o <<"-">> \o Plan \o <<"_">> \o NoteWord,
    <<"a">> }

\* Results of the index: titles that hold one, two or three of the keywords
\* or none, with the url of an object of the store, of no object, or no url.
IndexCandidates ==
  { Candidate(<<"M">> \o Tail(Memo), Case96 \o Slash \o <<"q">>),
    Candidate(Plan \o <<" ">> \o NoteWord, ResolveStore[2] \o <<".", "1">>),
    Candidate(Memo \o <<" ">> \o Plan \o <<" ">> \o NoteWord, NoString) }

\* Document requests by name against an index whose search returns up to
\* MaxResults candidates, or throws, for the caller of one case and the
\* caller of '*'.
NextIndex ==
  \E tok \in {1, Len(ResolveTokens)}, filename \in IndexNames,
     results \in UNION {[1..n -> IndexCandidates] : n \in 0..MaxResults},
     searchOk \in BOOLEAN, throws \in BOOLEAN :
    IndexLookup(1, tok, filename, results, searchOk, throws)

SpecIndex == InitResolve /\ [][NextIndex]_vars

\* Logins, chat turns and document requests of Ana while the synchronizer
\* runs and the authority adds her to the roster of case 25097.
InitSession ==
  /\ InitSync
  /\ InitIdle
  /\ blobs = SyncStore
  /\ saStaff = [c \in Range(CaseNumbersOf(SyncStore)) |->
                  IF c = Case97 THEN <<StaffBob, StaffGhost>> ELSE <<StaffAna>>]
  /\ now = 0

SessionCallers == {"startup", "timer"}

NextSession ==
  \/ TimerSync
  \/ \E p \in SessionCallers : SyncAuthReturn(p, TRUE)
  \/ \E p \in SessionCallers : SyncListReturn(p, TRUE)
  \/ \E p \in SessionCallers : SyncStaffReturn(p, "array")
  \/ SAChangeStaff(Case97, <<StaffAna>>)
  \/ Login(UserAna, "ok")
  \/ LoginMicrosoft(StaffAna.email, TRUE)
  \/ \E tok \in 1..MaxTokens : ChatStart(1, tok, FALSE)
  \/ deleteThreadReturn(1, TRUE)
  \/ getOrCreateThreadCreated(1, TRUE)
  \/ RunMessageCreated(1, TRUE)
  \/ RunCreated(1, TRUE)
  \/ RunPoll(1, "completed", FALSE, <<>>)
  \/ RunListed(1, TRUE)
  \/ \E tok \in 1..MaxTokens : GetUrl(1, tok, NoString, SyncStore[3], NoDoc, FALSE)

SpecSession == InitSession /\ [][NextSession]_vars

\* The rosters of case 25097 while users log in.
LoginRosters == { <<StaffAna>>, <<StaffBob, StaffGhost>>, <<StaffEve>> }

\* The two login endpoints, for every user and every answer of the authority,
\* while the synchronizer replaces the Directory.
NextLogin ==
  \/ TimerSync
  \/ \E p \in SessionCallers, authOk \in BOOLEAN : SyncAuthReturn(p, authOk)
  \/ \E p \in SessionCallers : SyncListReturn(p, TRUE)
  \/ \E p \in SessionCallers : SyncStaffReturn(p, "array")
  \/ \E roster \in LoginRosters : SAChangeStaff(Case97, roster)
  \/ \E username \in Usernames, outcome \in {"ok", "rejected", "unreachable", "noUserID"} :
        Login(username, outcome)
  \/ \E email \in FederatedEmails, verifyOk \in BOOLEAN : LoginMicrosoft(email, verifyOk)
  \/ Tick

SpecLogin == InitSession /\ [][NextLogin]_vars

\* Requests for the profile and for the cache status, with and without a
\* token, while the synchronizer fills the Directory and Ana logs in.
NextAdmin ==
  \/ TimerSync
  \/ \E p \in SessionCallers : SyncAuthReturn(p, TRUE)
  \/ \E p \in SessionCallers : SyncListReturn(p, TRUE)
  \/ \E p \in SessionCallers : SyncStaffReturn(p, "array")
  \/ SAChangeStaff(Case97, <<StaffAna>>)
  \/ Login(UserAna, "ok")
  \/ \E tok \in 1..MaxTokens : Me(1, tok)
  \/ \E kind \in HeaderKinds, tok \in 1..MaxTokens : CacheStatus(1, Header(kind, tok))

SpecAdmin == InitSession /\ [][NextAdmin]_vars

-----------------------------------------------------------------------------
(* Properties of the synchronizer *)

RunningSyncs == {p \in SyncCallers : syncProc[p].pc \in Running}

AtMostOneSync ==
  /\ Cardinality(RunningSyncs) <= 1
  /\ RunningSyncs # {} => permissionsCache.isSyncing

\* C7: single-flight.  Under any interleaving of the startup call, the timer
\* and force-sync requests at most one execution of syncPermissions is past its
\* guard at any time and it holds the syncing flag; a trigger that finds the
\* flag set starts nothing and leaves the cache and every activation untouched.
C7_SingleFlight ==
  /\ []AtMostOneSync
  /\ [][\A p \in SyncCallers :
         (lastRun'.collapsed = p /\ lastRun.collapsed # p)
           => /\ permissionsCache.isSyncing
              /\ UNCHANGED <<permissionsCache, syncProc, committed>>]_vars

\* Two concurrent force-sync requests: force1 is inside the roster-fetch loop
\* and force2 was turned away meanwhile.
C7_Witness ==
  /\ syncProc["force1"].pc = "fetch"
  /\ lastRun.collapsed = "force2"
  /\ syncProc["force2"].pc = "idle"

\* C9: when the authentication of the system principal fails, the sync ends
\* and byUserId, byEmail and lastSync equal their values from before the sync.
C9_AuthFailureKeepsDirectory ==
  [][\A p \in SyncCallers :
       (syncProc[p].pc = "auth" /\ syncProc'[p].pc = "idle")
         => /\ Directory(permissionsCache') = syncProc[p].pre
            /\ Directory(permissionsCache') = Directory(permissionsCache)]_vars

\* A sync failed to authenticate while a non-empty generation was in place.
C9_Witness ==
  /\ lastRun.outcome = "authfail"
  /\ permissionsCache.byUserId # EmptyMap
  /\ ~permissionsCache.isSyncing

\* C10: a completed sync tried every listed case although some lookups
\* failed, and the Directory it installed holds, for every lookup that
\* succeeded, the case in the entitlement of each identified staff member.
C10_CaseFailureIsSkipped ==
  lastRun.outcome = "done" =>
    /\ \A c \in Range(lastRun.cases) :
         c \in lastRun.failed \/ \E pair \in lastRun.ok : pair[1] = c
    /\ \A pair \in lastRun.ok : \A staff \in Range(pair[2]) :
         staff.userID # NoNumber =>
           /\ staff.userID \in DOMAIN permissionsCache.byUserId
           /\ Includes(permissionsCache.byUserId[staff.userID].cases, pair[1])

\* The lookup of the first case failed, the later one succeeded and its staff
\* is in the Directory.
C10_Witness ==
  /\ lastRun.outcome = "done"
  /\ Case96 \in lastRun.failed
  /\ <<Case97, <<StaffAna>> >> \in lastRun.ok
  /\ 1 \in DOMAIN permissionsCache.byUserId
  /\ permissionsCache.byUserId[1].cases = <<Case97>>

\* C11 (re-authentication and retry): a roster lookup that the authority
\* answers with 401 is followed by a re-authentication, the sync staying on the
\* same case to retry its lookup; and a case whose lookup was answered with 404
\* counts as a case with no staff.
C11_ReauthAndRetry ==
  /\ [][\A p \in SyncCallers : \A c \in syncProc'[p].expired \ syncProc[p].expired :
          /\ syncProc'[p].pc = "reauth"
          /\ syncProc'[p].idx = syncProc[p].idx]_vars
  /\ [](lastRun.outcome = "done"
          => \A c \in lastRun.notFound : \A u \in DOMAIN committed.byUserId :
               ~Includes(committed.byUserId[u].cases, c))

\* The cases of the entries of a Directory.
CasesOf(dir) ==
  UNION {Range(dir.byUserId[u].cases) : u \in DOMAIN dir.byUserId}
    \cup UNION {Range(dir.byEmail[e].cases) : e \in {x \in DOMAIN dir.byEmail :
                                                       dir.byEmail[x] # Undefined}}

\* C25 (cases come from the listing): the list of cases of a run is the list
\* of the all-digit top-level segments of the store as listed by that run, and
\* every case of an entry of the Directory a run commits is in that list.
C25_CasesComeFromListing ==
  [][\A p \in SyncCallers :
       /\ (syncProc[p].pc = "list" /\ syncProc'[p].pc = "fetch")
            => syncProc'[p].casesList = CaseNumbersOf(blobs)
       /\ (syncProc[p].pc = "fetch" /\ syncProc'[p].pc = "fetch")
            => syncProc'[p].casesList = syncProc[p].casesList
       /\ (syncProc[p].pc = "fetch" /\ syncProc'[p].pc = "idle")
            => CasesOf(permissionsCache') \subseteq Range(syncProc[p].casesList)
  ]_vars

\* A run has committed a Directory that holds entries but no case 25097: the
\* store it listed had none of its objects, though the authority keeps a
\* roster for it.
C25_Witness ==
  /\ lastRun.outcome = "done" /\ lastRun.cases = <<Case96>>
  /\ CasesOf(permissionsCache) = {Case96}
  /\ saStaff[Case97] # <<>>
  /\ ~permissionsCache.isSyncing

\* C12 (sync idempotence): a sync that completes on the same listing and the
\* same answers of the authority as the completed sync before it leaves
\* byUserId and byEmail as they were.
C12_SyncIdempotence ==
  [][(lastRun'.repeated /\ \E p \in SyncCallers :
         syncProc[p].pc \in Running /\ syncProc'[p].pc = "idle")
      => /\ permissionsCache'.byUserId = permissionsCache.byUserId
         /\ permissionsCache'.byEmail = permissionsCache.byEmail]_vars

\* The second of two syncs with the same answers has ended; Ana and Bob have
\* entries.
C12_Witness ==
  /\ lastRun.repeated
  /\ lastRun.ok # {}
  /\ {1, 2} \subseteq DOMAIN permissionsCache.byUserId
  /\ ~permissionsCache.isSyncing

-----------------------------------------------------------------------------
(* Properties of the conversation session manager *)

SessionOf(r) == req[r].sessionId

\* C5 (thread rebinding): a chat turn that enters getOrCreateThread for a
\* session whose stored thread was created under a different entitlement set
\* asks the engine to delete that thread; when the delete has returned the
\* session is mapped to no thread; and the thread created next has another id
\* than the deleted one and is the one stored for the session, under the
\* supplied entitlement, the deleted thread being mapped no more when the new
\* one is created.
C5_ThreadRebinding ==
  [][\A r \in ReqIds :
       /\ ( /\ Free(r) /\ req'[r].kind = "chat" /\ req'[r].pc # "clearThread"
            /\ req'[r].sessionId \in DOMAIN userThreads
            /\ Range(userThreads[req'[r].sessionId].cases) # Range(req'[r].userCases) )
          => /\ req'[r].pc = "rebind"
             /\ req'[r].delTid = userThreads[req'[r].sessionId].threadId
       /\ (req[r].pc = "rebind" /\ req'[r] # req[r])
          => /\ req'[r].pc = "create"
             /\ SessionOf(r) \notin DOMAIN userThreads'
             /\ engineThreads' \subseteq engineThreads
       /\ (req[r].pc = "create" /\ req'[r].pc = "message" /\ req[r].delTid # 0)
          => /\ req'[r].threadId # req[r].delTid
             /\ \A s \in DOMAIN userThreads : userThreads[s].threadId # req[r].delTid
             /\ userThreads'[SessionOf(r)].threadId = req'[r].threadId
             /\ userThreads'[SessionOf(r)].cases = req[r].userCases
  ]_vars

\* A turn under {25096, 25097} found thread 1 of its session, created under
\* another set, had it deleted, and now holds thread 2, stored for the session.
C5_Witness ==
  \E r \in ReqIds :
    /\ req[r].pc = "message" /\ req[r].delTid = 1 /\ req[r].threadId = 2
    /\ req[r].userCases = <<Case96, Case97>>
    /\ 1 \notin engineThreads
    /\ SessionOf(r) \in DOMAIN userThreads
    /\ userThreads[SessionOf(r)].threadId = 2
    /\ userThreads[SessionOf(r)].cases = <<Case96, Case97>>

\* C17 (best-effort deletion): when the remote delete of the thread of a
\* session fails (the engine keeps all its threads), the mapping of the session
\* is dropped all the same; the clear endpoint reports that nothing was
\* cleared, a chat turn goes on to create a thread; a chat turn that finds no
\* mapping for its session creates a thread; and a created thread is none of
\* the threads the engine already has, a leaked one included.
C17_BestEffortDelete ==
  [][\A r \in ReqIds :
       /\ ( /\ req[r].pc \in {"rebind", "clearThread", "clear"} /\ req'[r] # req[r]
            /\ engineThreads' = engineThreads )
          => /\ SessionOf(r) \notin DOMAIN userThreads'
             /\ req[r].pc = "clear" => req'[r].resp.kind = "noChat"
             /\ req[r].pc # "clear" => req'[r].pc = "create"
       /\ ( /\ Free(r) /\ req'[r].kind = "chat" /\ req'[r].pc # "clearThread"
            /\ req'[r].sessionId \notin DOMAIN userThreads )
          => req'[r].pc = "create"
       /\ (req[r].pc = "create" /\ req'[r].pc = "message")
          => req'[r].threadId \notin engineThreads
  ]_vars

\* The delete of thread delTid failed, the thread is still with the engine,
\* and the turn holds a new thread, stored for its session.
C17_Witness ==
  \E r \in ReqIds :
    /\ req[r].pc = "message" /\ req[r].delTid # 0
    /\ req[r].delTid \in engineThreads
    /\ req[r].threadId # req[r].delTid
    /\ SessionOf(r) \in DOMAIN userThreads
    /\ userThreads[SessionOf(r)].threadId = req[r].threadId

\* C18 (first writer wins): a getOrCreateThread call that found no thread for
\* its session and whose threads.create returns when a concurrent call has
\* already stored a thread for the session under the same entitlement returns
\* that stored thread and leaves the stored entry as it is.
C18_FirstWriterWins ==
  [][\A r \in ReqIds :
       ( /\ req[r].pc = "create" /\ req'[r].pc = "message" /\ req[r].delTid = 0
         /\ SessionOf(r) \in DOMAIN userThreads
         /\ casesMatch(userThreads[SessionOf(r)].cases, req[r].userCases) )
       => /\ req'[r].threadId = userThreads[SessionOf(r)].threadId
          /\ userThreads'[SessionOf(r)] = userThreads[SessionOf(r)]
  ]_vars

StoredWithThread == \A s \in DOMAIN userThreads : userThreads[s].cases = userThreads[s].createdUnder

\* C6 (no reuse across entitlements): getOrCreateThread returns the stored
\* thread of the session exactly when the session has one and the set of cases
\* stored with it equals the set of cases supplied, whatever their order; and
\* the cases stored with a thread are always those it was created under.
C6_NoReuseAcrossEntitlements ==
  /\ []StoredWithThread
  /\ [][\A r \in ReqIds :
          LET map == IF req[r].pc = "clearThread" THEN userThreads' ELSE userThreads
              rq  == req'[r]
          IN  ( /\ Free(r) \/ req[r].pc = "clearThread"
                /\ rq.kind = "chat"
                /\ rq.pc \in {"message", "rebind", "create"} )
              => /\ rq.pc = "message"
                      <=> /\ rq.sessionId \in DOMAIN map
                          /\ Range(map[rq.sessionId].cases) = Range(rq.userCases)
                 /\ rq.pc = "message" => rq.threadId = map[rq.sessionId].threadId
     ]_vars

\* A turn under <<25097, 25096>> got the thread created under <<25096, 25097>>.
C6_Witness ==
  \E r \in ReqIds :
    /\ req[r].pc = "message" /\ req[r].delTid = 0
    /\ req[r].userCases = <<Case97, Case96>>
    /\ SessionOf(r) \in DOMAIN userThreads
    /\ userThreads[SessionOf(r)].createdUnder = <<Case96, Case97>>
    /\ userThreads[SessionOf(r)].threadId = req[r].threadId

-----------------------------------------------------------------------------
(* Properties of the enforcement pipeline and of the document resolver *)

\* The case a path belongs to: its leading segment, when that is a case number
\* for the synchronizer (server.js:629-635); NoString otherwise.
CaseOfPath(path) ==
  IF IsAllDigits(FirstSegment(path)) THEN FirstSegment(path) ELSE NoString

OutsideEntitlement(path, userCases) ==
  /\ CaseOfPath(path) # NoString
  /\ ~Includes(userCases, Star)
  /\ ~Includes(userCases, CaseOfPath(path))

\* C1 (isolation): no answer of the chat operation carries a citation whose
\* path leads with a case that is outside the entitlement of the token it
\* answers, the token not holding '*'.
C1_Isolation ==
  \A r \in ReqIds :
    (req[r].pc = "done" /\ req[r].resp.kind = "answer")
      => \A i \in 1..Len(req[r].resp.citations) :
           ~OutsideEntitlement(req[r].resp.citations[i].blobPath,
                               tokens[req[r].resp.tok].cases)

\* C2 (kill switch): a chat turn whose answer comes with a citation of a case
\* outside the entitlement of the caller answers with the refusal and with no
\* citation.
C2_KillSwitch ==
  [][\A r \in ReqIds :
       ( /\ req[r].pc = "list" /\ req'[r].pc = "done" /\ req'[r].resp.status = 200
         /\ \E i \in 1..Len(req[r].toolRetrievedDocuments) :
               OutsideEntitlement(req[r].toolRetrievedDocuments[i].blobPath,
                                  req[r].userCases) )
       => /\ req'[r].resp.kind = "refused"
          /\ req'[r].resp.citations = <<>>
  ]_vars

\* C3 (resolver): no signed URL is issued for a path that leads with a case
\* outside the entitlement of the token, the token not holding '*'.
C3_ResolverWithinEntitlement ==
  \A r \in ReqIds :
    (req[r].pc = "done" /\ req[r].resp.kind = "url")
      => ~OutsideEntitlement(req[r].resp.blobPath, tokens[req[r].resp.tok].cases)

\* C19 (cascade order): a document request whose path hint names an object of
\* the store, the existence probe answering, invokes the probe only, neither
\* the index search nor the storage enumeration, and is answered for the
\* hinted path, found directly: with its URL, or Forbidden for its case.
C19_HintShortCircuits ==
  \A r \in ReqIds :
    (req[r].pc = "done" /\ req[r].resp.hintFound # NoString)
      => /\ req[r].resp.calls = {"exists"}
         /\ req[r].resp.kind \in {"url", "denied"}
         /\ req[r].resp.documentCase = ActualCase(req[r].resp.hintFound)
         /\ req[r].resp.kind = "url"
              => /\ req[r].resp.blobPath = req[r].resp.hintFound
                 /\ req[r].resp.source = "index-direct"

\* A request was answered with the URL of its hinted path, found directly,
\* after the existence probe and nothing else.
C19_Witness ==
  \E r \in ReqIds :
    /\ req[r].pc = "done" /\ req[r].resp.kind = "url"
    /\ req[r].resp.hintFound \in PathHints \ {NoString}
    /\ req[r].resp.blobPath = req[r].resp.hintFound
    /\ req[r].resp.calls = {"exists"}

\* C20 (per-request authorization): the filter of every search of a chat turn
\* is the one of the cases of the token of that turn (none for '*', else the
\* disjunction over exactly those cases), whatever filter is stored with the
\* thread of the session; and a document request is answered Forbidden exactly
\* when the case of the resolved path is outside the cases of its own token.
C20_PerRequestAuthorization ==
  /\ [][\A r \in ReqIds :
          req'[r].toolRounds > req[r].toolRounds
            => req'[r].searchFilter =
                 IF Includes(tokens[req[r].tok].cases, Star) THEN NoFilter
                 ELSE [kind |-> "or", eq |-> tokens[req[r].tok].cases]]_vars
  /\ [](\A r \in ReqIds :
          (req[r].pc = "done" /\ req[r].resp.kind \in {"url", "denied"})
            => (req[r].resp.kind = "denied"
                  <=> AccessDenied(req[r].resp.documentCase,
                                   tokens[req[r].resp.tok].cases)))

\* A turn has searched under the filter of its own token while the entry of
\* its session stores the filter of another entitlement.
C20_Witness ==
  \E r \in ReqIds :
    /\ req[r].kind = "chat" /\ req[r].toolRounds > 0
    /\ req[r].searchFilter = [kind |-> "or", eq |-> tokens[req[r].tok].cases]
    /\ SessionOf(r) \in DOMAIN userThreads
    /\ userThreads[SessionOf(r)].filter # req[r].searchFilter

\* C21 (rejection before the handler): a request to a protected endpoint
\* whose header is missing, is no token, or is an expired token is answered by
\* the middleware (401 or 403) and changes nothing else: no thread is created,
\* deleted or mapped, and the answer carries no citation and no URL.
C21_RejectedBeforeHandler ==
  [][\A r \in ReqIds :
       \A header \in {Header(kind, tok) : kind \in HeaderKinds \ {"valid"},
                                           tok \in 1..Len(tokens)} :
       (req'[r] # req[r] /\ \E endpoint \in Endpoints : Protected(r, endpoint, header))
         => /\ req'[r].pc = "done"
            /\ req'[r].resp.status \in {401, 403}
            /\ req'[r].resp.citations = <<>> /\ req'[r].resp.blobPath = NoString
            /\ req'[r].resp.calls = {} /\ req'[r].toolRounds = 0
            /\ userThreads' = userThreads
            /\ engineThreads' = engineThreads /\ nextThreadId' = nextThreadId
  ]_vars

\* A request was rejected by the middleware while its session has a thread
\* that a clear or a chat turn would have touched.
C21_Witness ==
  \E r \in ReqIds :
    /\ req[r].pc = "done" /\ req[r].resp.kind = "rejected" /\ req[r].resp.status = 403
    /\ userThreads # EmptyMap /\ engineThreads # {}

\* C22 (citations have a path): every citation of an answer of the chat
\* operation carries a path, and it is the decoded url of a document of the
\* index that has one; a retrieved document without a url is not cited.
C22_CitationsHaveAPath ==
  \A r \in ReqIds :
    (req[r].pc = "done" /\ req[r].resp.kind = "answer")
      => \A i \in 1..Len(req[r].resp.citations) :
           /\ req[r].resp.citations[i].blobPath # NoString
           /\ \E d \in engine.index :
                /\ d.url # NoString
                /\ req[r].resp.citations[i].blobPath = decodeURIComponent(d.url)

\* C27 (structured filter): the filter of every search of a chat turn is
\* null exactly when the cases of the turn hold '*'; otherwise it is the
\* disjunction of one equality clause per case of the turn, in their order,
\* and of no other clause.
C27_StructuredFilter ==
  [][\A r \in ReqIds :
       req'[r].toolRounds > req[r].toolRounds
         => LET filter == req'[r].searchFilter
                cases  == req[r].userCases
            IN  /\ filter.kind = "none" <=> Includes(cases, Star)
                /\ filter.kind # "none"
                     => /\ filter.kind = "or"
                        /\ Len(filter.eq) = Len(cases)
                        /\ \A i \in 1..Len(cases) : filter.eq[i] = cases[i]
  ]_vars

\* A turn entitled to two cases has searched under the disjunction of the two.
C27_Witness ==
  \E r \in ReqIds :
    /\ req[r].kind = "chat" /\ req[r].toolRounds > 0
    /\ req[r].userCases = <<Case97, Case96>>
    /\ req[r].searchFilter = [kind |-> "or", eq |-> <<Case97, Case96>>]

\* C28 (bounded generation): a chat turn reads the run status at most
\* maxIterations times: each turn of the loop counts one, a turn is polling
\* only with fewer than maxIterations read, and it leaves the loop for the
\* final response or with an error; the read that reaches the ceiling ends
\* the turn with the timeout error (or the error of the read itself), and no
\* earlier read does; and every error answer of a chat turn, timeout and
\* failure included, is a 500 without citations.
C28_BoundedGeneration ==
  /\ [](\A r \in ReqIds : req[r].pc = "poll" => req[r].iterations < maxIterations)
  /\ [][\A r \in ReqIds :
          (req[r].pc = "poll" /\ req'[r] # req[r])
            => /\ req'[r].pc \in {"poll", "list", "done"}
               /\ req'[r].pc # "done" => req'[r].iterations = req[r].iterations + 1
               /\ req[r].iterations + 1 = maxIterations
                    => req'[r].pc = "done" /\ req'[r].resp.kind \in {"timeout", "error"}
               /\ req'[r].pc = "done"
                    => /\ req'[r].resp.kind \in {"timeout", "failed", "error"}
                       /\ req'[r].resp.kind = "timeout"
                            => req[r].iterations + 1 = maxIterations]_vars
  /\ [](\A r \in ReqIds :
          (req[r].pc = "done" /\ req[r].resp.kind \in {"timeout", "failed", "error"})
            => req[r].resp.status = 500 /\ req[r].resp.citations = <<>>)

\* A chat turn has been answered with the timeout error.
C28_Witness ==
  \E r \in ReqIds :
    /\ req[r].pc = "done" /\ req[r].resp.kind = "timeout"
    /\ req[r].resp.status = 500 /\ req[r].resp.citations = <<>>

\* C14 (empty entitlement): against an engine that applies the filter it is
\* given, a chat turn of a token with no cases gets no document from the
\* search of the tool, and its answer carries no citation.
C14_EmptyEntitlementRetrievesNothing ==
  \A r \in ReqIds :
    engine.honest =>
      /\ (req[r].kind = "chat" /\ req[r].userCases = <<>>)
            => req[r].toolRetrievedDocuments = <<>>
      /\ (req[r].pc = "done" /\ req[r].resp.kind = "answer"
            /\ tokens[req[r].resp.tok].cases = <<>>)
            => req[r].resp.citations = <<>>

-----------------------------------------------------------------------------
(* Properties of the session issuer and of the Directory as readers see it *)

ServedWithTokenCases ==
  \A r \in ReqIds :
    /\ (req[r].kind \in {"chat", "clear"} /\ req[r].pc \notin {"idle", "done"})
         => req[r].userCases = tokens[req[r].tok].cases
    /\ (req[r].pc = "done" /\ req[r].resp.kind = "denied")
         => /\ req[r].resp.userCases = tokens[req[r].resp.tok].cases
            /\ ~Includes(tokens[req[r].resp.tok].cases, req[r].resp.documentCase)
    /\ (req[r].pc = "done" /\ req[r].resp.kind = "url")
         => ~AccessDenied(req[r].resp.documentCase, tokens[req[r].resp.tok].cases)

\* C4 (snapshot freezing): a token, once issued, stays as it was issued
\* whatever the synchronizer does to the Directory afterwards, and every chat
\* turn and document request is served with the cases of its token.
C4_SnapshotFreezing ==
  /\ [][/\ Len(tokens') >= Len(tokens)
        /\ \A i \in DOMAIN tokens : tokens'[i] = tokens[i]]_vars
  /\ []ServedWithTokenCases

\* Ana logged in when the Directory gave her 25096, and again when it gave her
\* 25096 and 25097, which it still does; a document of 25097 requested with
\* the first token was denied.
C4_Witness ==
  /\ Len(tokens) = 2
  /\ tokens[1].cases = <<Case96>> /\ tokens[2].cases = <<Case96, Case97>>
  /\ tokens[1].saUserID = 1 /\ tokens[2].saUserID = 1
  /\ 1 \in DOMAIN permissionsCache.byUserId
  /\ permissionsCache.byUserId[1].cases = <<Case96, Case97>>
  /\ req[1].pc = "done" /\ req[1].resp.kind = "denied" /\ req[1].resp.tok = 1
  /\ req[1].resp.documentCase = Case97

\* C8 (whole generations): what readers find in the cache (byUserId, byEmail,
\* lastSync) is at every moment the result of the last sync that ended with a
\* swap, and the cases of every token are those that generation held for the
\* identity when the token was issued.
C8_WholeGenerations ==
  /\ Directory(permissionsCache) = committed
  /\ \A i \in DOMAIN tokens : tokens[i].cases = issued[i]

\* A sync is in its loop with scratch maps that give Ana 25096 only, while the
\* cache holds the generation before, under which a federated login got both.
C8_Witness ==
  \E p \in SessionCallers :
    /\ syncProc[p].pc = "fetch"
    /\ 1 \in DOMAIN syncProc[p].tempByUserId
    /\ syncProc[p].tempByUserId[1].cases = <<Case96>>
    /\ 1 \in DOMAIN permissionsCache.byUserId
    /\ permissionsCache.byUserId[1].cases = <<Case96, Case97>>
    /\ Len(tokens) >= 1
    /\ tokens[Len(tokens)].saUserID = NoNumber
    /\ tokens[Len(tokens)].cases = <<Case96, Case97>>

-----------------------------------------------------------------------------
(* Properties of the two login endpoints *)

\* The Directory entry of an identity: the one under its user id, or else the
\* one under its normalized e-mail, or else none.
EntryOf(cache, userID, email) ==
  IF userID # NoNumber /\ userID \in DOMAIN cache.byUserId THEN cache.byUserId[userID]
  ELSE IF email # NoString /\ email \in DOMAIN cache.byEmail THEN cache.byEmail[email]
  ELSE Undefined

\* A login endpoint has answered in this step.
LoginAnswered == loginResp' # loginResp \/ tokens' # tokens

\* C13 (login without a Directory entry): a login whose authentication
\* succeeded, by credentials or by a verified identity token, for an identity
\* with no Directory entry answers 200 with a token of no cases.
C13_LoginWithoutEntry ==
  [][(/\ LoginAnswered
      /\ loginResp'.outcome = "ok"
      /\ EntryOf(permissionsCache, loginResp'.userID, loginResp'.email) = Undefined)
     => /\ loginResp'.status = 200
        /\ tokens' = Append(tokens, tokens'[Len(tokens')])
        /\ tokens'[loginResp'.token].cases = <<>>]_vars

\* C15 (id first, then e-mail): the token of a credentials login carries the
\* cases of the entry under the user id of the identity or, when there is none,
\* of the entry under its normalized e-mail.
C15_IdThenEmail ==
  [][(/\ LoginAnswered
      /\ loginResp'.status = 200
      /\ loginResp'.userID # NoNumber)
     => tokens'[loginResp'.token].cases =
          EntryOf(permissionsCache, loginResp'.userID, loginResp'.email).cases]_vars

\* C16 (login failures): rejected credentials answer 401, an unreachable
\* authority answers 503, and neither comes with a token.
C16_LoginFailureKinds ==
  /\ loginResp.outcome = "rejected" => loginResp.status = 401
  /\ loginResp.outcome = "unreachable" => loginResp.status = 503
  /\ loginResp.outcome \in {"rejected", "unreachable"} => loginResp.token = 0

\* C23 (unique session ids): no two tokens issued carry the same sessionId.
C23_UniqueSessionIds ==
  \A i, j \in 1..Len(tokens) : i # j => tokens[i].sessionId # tokens[j].sessionId

\* A request of the session is being served.
InFlight(sessionId) ==
  \E r \in ReqIds : req[r].sessionId = sessionId /\ ~Free(r)

\* C24 (idle expiry): a thread stored for a session that has no request in
\* service is eventually removed from the map, unless the session sends
\* another request first.
C24_IdleThreadsExpire ==
  \A i \in 1..Len(TurnTokens) :
    LET sessionId == TurnTokens[i].sessionId
    IN  (sessionId \in DOMAIN userThreads /\ ~InFlight(sessionId))
          ~> (InFlight(sessionId) \/ sessionId \notin DOMAIN userThreads)

-----------------------------------------------------------------------------
(* Properties of the notes synchronizer *)

\* The note is in the cache entry with the date it has now.
UnchangedIn(note, cachedNotes) ==
  /\ note.noteID \in DOMAIN cachedNotes
  /\ OrDate(note.modifiedDate, note.createdDate)
       = OrDate(cachedNotes[note.noteID].modifiedDate, cachedNotes[note.noteID].createdDate)

\* C26 (incremental notes sync): every note a run uploads is absent from the
\* cache the run loaded, or has another modifiedDate-or-createdDate than the
\* cache holds for it; the cache a run loads from a readable file is the one
\* the last run saved, so a note unchanged since then is not uploaded.
C26_IncrementalNotesSync ==
  [][/\ (notesSync.pc = "upload" /\ notesSync'.queue # notesSync.queue)
          => /\ notesSync'.last = Head(notesSync.queue)
             /\ ~UnchangedIn(notesSync'.last,
                   CachedNotes(notesSync.loaded, notesSync.caseNumbers[notesSync.i]))
     /\ (notesSync.pc = "idle" /\ notesSync'.pc = "case")
          => notesSync'.loaded \in {notesSync.file, EmptyMap}
     /\ notesSync.pc # "idle" => notesSync'.loaded = notesSync.loaded
  ]_vars

\* A run is uploading the modified note of a case and has left the unchanged
\* note of the same case alone.
C26_Witness ==
  /\ notesSync.pc = "upload"
  /\ notesSync.toSync.unchanged # <<>> /\ notesSync.toSync.modified # <<>>
  /\ notesSync.last = notesSync.toSync.modified[1]
  /\ notesSync.loaded = notesSync.file /\ notesSync.file # EmptyMap

\* C29 (fallback within entitlement): a document request answered from the
\* storage enumeration, for a token that does not hold '*', is answered with
\* a path whose leading segment is one of the cases of the token.
C29_FallbackWithinEntitlement ==
  \A r \in ReqIds :
    (req[r].pc = "done" /\ req[r].resp.kind = "url" /\ req[r].resp.source = "fallback"
       /\ ~Includes(tokens[req[r].resp.tok].cases, Star))
      => Includes(tokens[req[r].resp.tok].cases, FirstSegment(req[r].resp.blobPath))

\* The blobs the storage enumeration lists for a caller: those under one of
\* the cases as a prefix, every blob for '*' (server.js:338-343).
Enumerated(userCases) ==
  {i \in 1..Len(blobs) :
     \/ Includes(userCases, Star)
     \/ \E c \in 1..Len(userCases) : StartsWith(blobs[i], userCases[c])}

\* C30 (strategy order): a document request that reached the storage
\* enumeration is answered Not Found only when no enumerated object matches
\* the name under any of the four strategies (exact, case-insensitive,
\* separator-normalized, keywords); when it is answered from the enumeration,
\* the object matches under some strategy and no enumerated object matches
\* under an earlier one.
C30_StrategiesInOrder ==
  \A r \in ReqIds :
    (req[r].pc = "done" /\ "list" \in req[r].resp.calls)
      => LET filename == req[r].resp.filename
             listed   == Enumerated(tokens[req[r].resp.tok].cases)
             NoneAt(k) == \A i \in listed :
                            ~StrategyMatches(k, filename, LastSegment(blobs[i]))
         IN  /\ req[r].resp.kind = "notFound" => \A k \in 1..4 : NoneAt(k)
             /\ (req[r].resp.kind = "url" /\ req[r].resp.source = "fallback")
                  => \E k \in 1..4 :
                       /\ StrategyMatches(k, filename, LastSegment(req[r].resp.blobPath))
                       /\ \A j \in 1..(k - 1) : NoneAt(j)

\* The score of a candidate for a name, as the number of keywords of the name
\* its title contains (the score is this number over the number of keywords).
ScoreOf(filename, candidate) == Matches_Of(IndexKeywords(filename), candidate.title)

C32_GrantScopedToCheckedPath ==
  \A r \in ReqIds :
    req[r].pc = "done"
      => IF req[r].resp.kind = "url"
           THEN /\ req[r].resp.grant.blobName = req[r].resp.blobPath
                /\ req[r].resp.blobPath # NoString
                /\ ~AccessDenied(ActualCase(req[r].resp.grant.blobName),
                                 tokens[req[r].resp.tok].cases)
                /\ req[r].resp.grant.permissions = "r"
                /\ req[r].resp.grant.hours \in 1..24
           ELSE req[r].resp.grant = NoResponse.grant

\* Signed URLs were issued for a path found by the hint and for one found by
\* the storage enumeration.
C32_Witness ==
  \E r1, r2 \in ReqIds :
    /\ req[r1].pc = "done" /\ req[r1].resp.kind = "url"
    /\ req[r1].resp.source = "index-direct" /\ req[r1].resp.grant.blobName = req[r1].resp.blobPath
    /\ req[r2].pc = "done" /\ req[r2].resp.kind = "url"
    /\ req[r2].resp.source = "fallback" /\ req[r2].resp.grant.blobName = req[r2].resp.blobPath

\* C33 (flag released): the syncing flag is set only while an execution of the
\* sync is running; the step in which an execution ends, completed or failed
\* at the authentication or at the listing, leaves the flag false; and a
\* trigger is turned away by the flag only while an execution is running.
C33_FlagReleased ==
  /\ [](permissionsCache.isSyncing => RunningSyncs # {})
  /\ [][/\ \A p \in SyncCallers :
             (syncProc[p].pc \in Running /\ syncProc'[p].pc = "idle")
               => ~permissionsCache'.isSyncing
        /\ (lastRun'.collapsed # lastRun.collapsed /\ lastRun'.collapsed # "none")
             => RunningSyncs # {}
       ]_vars

\* An execution is running after one that failed at the authentication or at
\* the listing.
C33_Witness ==
  /\ lastRun.outcome \in {"authfail", "listfail"}
  /\ RunningSyncs # {}
  /\ permissionsCache.isSyncing

\* The (identity, case) pairs of the entries of a Directory.
PairsOf(dir) ==
  UNION {{<<u, c>> : c \in Range(dir.byUserId[u].cases)} : u \in DOMAIN dir.byUserId}

\* The (identity, case) pairs of the rosters of the lookups that succeeded, of
\* the staff members that have a user id.
RosterPairs(ok) ==
  UNION {{<<staff.userID, pair[1]>> :
            staff \in {x \in Range(pair[2]) : x.userID # NoNumber}} : pair \in ok}

\* The e-mail keys of the rosters of the lookups that succeeded.
RosterEmails(ok) ==
  UNION {{Trim(ToLowerCase(staff.email)) :
            staff \in {x \in Range(pair[2]) : x.email # NoString}} : pair \in ok}

\* C34 (fresh generation): the Directory a completed sync has installed holds
\* exactly the (identity, case) pairs of the rosters its successful lookups
\* returned, every entry with a case, and exactly the e-mail keys of those
\* rosters: nothing of the generation before it.
C34_ExactlyThisRun ==
  lastRun.outcome = "done" =>
    /\ PairsOf(permissionsCache) = RosterPairs(lastRun.ok)
    /\ \A u \in DOMAIN permissionsCache.byUserId : permissionsCache.byUserId[u].cases # <<>>
    /\ DOMAIN permissionsCache.byEmail = RosterEmails(lastRun.ok)

\* A completed sync whose lookup failed for a case: a staff member the
\* authority has on the roster of that case has no entry, while the Directory
\* holds the staff of the lookups that succeeded.
C34_Witness ==
  /\ lastRun.outcome = "done" /\ ~permissionsCache.isSyncing
  /\ permissionsCache.byUserId # EmptyMap
  /\ \E c \in lastRun.failed : \E staff \in Range(saStaff[c]) :
       /\ staff.userID # NoNumber
       /\ staff.userID \notin DOMAIN permissionsCache.byUserId

\* C35 (no use after delete): a chat turn creates its run and reads the run
\* only on a thread the engine still has; and the return of a remote delete
\* leaves alone the mapping of a session that by then is mapped to another
\* thread than the one the delete was asked for.
C35_NoUseAfterDelete ==
  [][\A r \in ReqIds :
       /\ (req[r].pc \in {"run", "poll"} /\ req'[r] # req[r])
            => req[r].threadId \in engineThreads
       /\ ( /\ req[r].pc \in {"rebind", "clearThread", "clear"} /\ req'[r] # req[r]
            /\ SessionOf(r) \in DOMAIN userThreads
            /\ userThreads[SessionOf(r)].threadId # req[r].delTid )
            => /\ SessionOf(r) \in DOMAIN userThreads'
               /\ userThreads'[SessionOf(r)] = userThreads[SessionOf(r)]
  ]_vars

\* C36 (the indexes agree): every e-mail key of the Directory maps to a
\* profile, and that profile is one of the values of byUserId.
C36_IndexesAgree ==
  \A e \in DOMAIN permissionsCache.byEmail :
    /\ permissionsCache.byEmail[e] # Undefined
    /\ \E u \in DOMAIN permissionsCache.byUserId :
         permissionsCache.byUserId[u] = permissionsCache.byEmail[e]

\* C37 (answers come from completed runs): a chat turn reads the messages of
\* the thread to build its answer only after it has read the run in status
\* completed, and an answer is sent only from there.
C37_AnswerOnlyAfterCompleted ==
  /\ [](\A r \in ReqIds : req[r].pc = "list" => req[r].runStatus = "completed")
  /\ [][\A r \in ReqIds :
          (req[r].pc # "done" /\ req'[r].pc = "done" /\ req'[r].resp.kind = "answer")
            => req[r].pc = "list"]_vars

\* C38 (failed uploads stay unsynchronized): the cache entry of a case is
\* replaced by the index of its notes only when every upload of the case in
\* this run succeeded, so that no note whose upload failed is in the cache
\* with the date it has now.
C38_FailedNoteNotCached ==
  [][(notesSync.pc = "upload" /\ notesSync'.notesCache # notesSync.notesCache)
       => (notesSync.failed = 0 /\ notesSync'.lastOk)
  ]_vars

\* C39 (no disclosure without a session token): an answer that carries
\* Directory contents, the records of the cache status or the cases of the
\* profile, is given only to a request that presented a token that verifies.
C39_DirectoryOnlyWithToken ==
  \A r \in ReqIds :
    (req[r].pc = "done" /\ (req[r].resp.data # {} \/ req[r].resp.kind = "me"))
      => req[r].resp.tok \in 1..Len(tokens)

====
